---- MODULE Spec2Model ----
(***************************************************************************)
(* add-mcp: installing MCP server declarations into the configuration      *)
(* files of coding agents.  The model covers the format codecs (JSON/JSONC,*)
(* YAML, TOML), the deep merge, the agent registry with its per-agent      *)
(* transforms, and the installer (installServerForAgent, installServer,    *)
(* isServerInstalled).                                                     *)
(*                                                                         *)
(* A configuration document is a tree of tagged values.  A file is a       *)
(* record: what kind of thing sits at the path, whether its text is        *)
(* well-formed for its format, the tree a parser reads from it, the        *)
(* comments its text holds and how it is indented.                         *)
(***************************************************************************)
EXTENDS Integers, Sequences, FiniteSets, TLC

VARIABLES
    fs,        \* path -> file (the filesystem, restricted to the config paths)
    seeded,    \* the paths where a file was found that no install of this run wrote
    last,      \* the last completed API call: its arguments, the file before it, its outcome
    calls,     \* number of agent installs / queries carried out so far
    run,       \* the installServer call in progress (its loop position and result map)
    mTarget,   \* deepMerge under test: the existing document
    mSource,   \* deepMerge under test: the patch
    mResult,   \* deepMerge under test: the returned document
    sInput,    \* the source string handed to the command line
    sParsed,   \* parseSource(sInput), once taken
    sOptions,  \* the options buildServerConfig was called with
    sConfig,   \* buildServerConfig(sParsed, sOptions), once built
    tOut,      \* an agent's transformConfig applied to sConfig: agent, name, scope, record
    cli,       \* the `add` command in progress: its flags, its position, its exit code
    prompts,   \* collectPromptValues in progress: the field asked, the questions, the values
    lock,      \* the lock file and the last mcp-lock.ts call
    ignore     \* .gitignore and the last updateGitignoreWithPaths call

srcVars == <<sInput, sParsed, sOptions, sConfig>>

extVars == <<tOut, cli, prompts, lock, ignore>>

vars == <<fs, seeded, last, calls, run, mTarget, mSource, mResult, srcVars, extVars>>

----------------------------------------------------------------------------
(* JavaScript values                                                       *)

Undef == [t |-> "undef"]
Null == [t |-> "null"]
Str(s) == [t |-> "str", s |-> s]
Num(n) == [t |-> "num", n |-> n]
Bool(b) == [t |-> "bool", b |-> b]
Arr(a) == [t |-> "arr", a |-> a]
Map(m) == [t |-> "map", m |-> m]

NoKeys == [k \in {} |-> Undef]
EmptyMap == Map(NoKeys)

\* `v` in a boolean context (if (v), v && ..., v || ...)
Truthy(v) ==
    CASE v.t = "undef" -> FALSE
      [] v.t = "null" -> FALSE
      [] v.t = "str" -> v.s # ""
      [] v.t = "num" -> v.n # 0
      [] v.t = "bool" -> v.b
      [] OTHER -> TRUE

\* v && typeof v === "object": maps and arrays alike
IsObject(v) == v.t \in {"map", "arr"}

\* v && typeof v === "object" && !Array.isArray(v)
IsPlainObject(v) == v.t = "map"

\* The own enumerable properties of `v`, as { ...v } copies them: a map's keys,
\* an array's indices; nothing for undefined, null, numbers and booleans.
Spread(v) ==
    CASE v.t = "map" -> v.m
      [] v.t = "arr" -> [k \in {ToString(i - 1) : i \in 1..Len(v.a)} |->
                            v.a[CHOOSE i \in 1..Len(v.a) : ToString(i - 1) = k]]
      [] OTHER -> NoKeys

\* `key in v` for an object v (own keys; an array also answers to "length")
HasKey(v, key) ==
    CASE v.t = "map" -> key \in DOMAIN v.m
      [] v.t = "arr" -> key \in (DOMAIN Spread(v)) \cup {"length"}
      [] OTHER -> FALSE

\* v[key]
Prop(v, key) ==
    CASE v.t = "map" -> IF key \in DOMAIN v.m THEN v.m[key] ELSE Undef
      [] v.t = "arr" -> IF key \in DOMAIN Spread(v) THEN Spread(v)[key]
                        ELSE IF key = "length" THEN Num(Len(v.a)) ELSE Undef
      [] OTHER -> Undef

----------------------------------------------------------------------------
(* formats/utils.ts                                                        *)

RECURSIVE deepMergeConcat(_, _)
deepMergeConcat(target, source) ==
    LET result == Spread(target)
        merged == [key \in DOMAIN source.m |->
            LET sourceValue == source.m[key]
                targetValue == IF key \in DOMAIN result THEN result[key] ELSE Undef
            IN  IF IsPlainObject(sourceValue)
                THEN deepMergeConcat(IF IsObject(targetValue) THEN targetValue ELSE EmptyMap,
                                     sourceValue)
                ELSE IF sourceValue.t = "arr" /\ targetValue.t = "arr"
                     THEN Arr(targetValue.a \o sourceValue.a)
                     ELSE sourceValue]
    IN  Map(merged @@ result)

deepMergeShallow(target, source) ==
    Map(source.m @@ Spread(target))

RECURSIVE deepMergeKeep(_, _)
deepMergeKeep(target, source) ==
    LET result == Spread(target)
        merged == [key \in DOMAIN source.m |->
            LET sourceValue == source.m[key]
                targetValue == IF key \in DOMAIN result THEN result[key] ELSE Undef
            IN  IF IsPlainObject(sourceValue)
                THEN deepMergeKeep(IF IsObject(targetValue) THEN targetValue ELSE EmptyMap,
                                   sourceValue)
                ELSE IF key \in DOMAIN result THEN targetValue ELSE sourceValue]
    IN  Map(merged @@ result)

RECURSIVE deepMerge(_, _)
deepMerge(target, source) ==
    LET result == Spread(target)
        merged == [key \in DOMAIN source.m |->
            LET sourceValue == source.m[key]
                targetValue == IF key \in DOMAIN result THEN result[key] ELSE Undef
            IN  IF IsPlainObject(sourceValue)
                THEN deepMerge(IF IsObject(targetValue) THEN targetValue ELSE EmptyMap,
                               sourceValue)
                ELSE sourceValue]
    IN  Map(merged @@ result)

\* path.split("."): a config key is kept as the sequence of its segments
RECURSIVE getNestedValue(_, _)
getNestedValue(obj, keys) ==
    IF keys = <<>> THEN obj
    ELSE IF IsObject(obj) /\ HasKey(obj, Head(keys))
         THEN getNestedValue(Prop(obj, Head(keys)), Tail(keys))
         ELSE Undef

----------------------------------------------------------------------------
(* Files.  kind: what sits at the path ("absent", "dir" or "file"); empty:  *)
(* the text has length 0; wf: the text is well-formed for its format; root: *)
(* the value a parser recovers from the text (Undef: none, as in a text of  *)
(* blanks or comments only); cmts: where the text holds comments, "outside" *)
(* or "inside" the value at the config key; indent: how the first indented  *)
(* property is indented ("none", "sp2", "sp4", "tab").                      *)

Absent == [kind |-> "absent", empty |-> TRUE, wf |-> TRUE, root |-> Undef,
           cmts |-> {}, indent |-> "none"]
Dir == [kind |-> "dir", empty |-> TRUE, wf |-> TRUE, root |-> Undef,
        cmts |-> {}, indent |-> "none"]
EmptyFile == [kind |-> "file", empty |-> TRUE, wf |-> TRUE, root |-> Undef,
              cmts |-> {}, indent |-> "none"]
File(wf, root, cmts, indent) ==
    [kind |-> "file", empty |-> FALSE, wf |-> wf, root |-> root,
     cmts |-> cmts, indent |-> indent]

\* existsSync(filePath)
existsSync(file) == file.kind # "absent"

\* what a codec call leaves behind: an exception, or the file it wrote
Threw(msg) == [threw |-> TRUE, error |-> msg, file |-> Absent]
Wrote(file) == [threw |-> FALSE, error |-> "", file |-> file]

\* JSON.stringify(v) read back: a property whose value is undefined is left
\* out, an undefined array element becomes null
RECURSIVE JsonStringify(_)
JsonStringify(v) ==
    CASE v.t = "map" ->
            Map([k \in {x \in DOMAIN v.m : v.m[x].t # "undef"} |-> JsonStringify(v.m[k])])
      [] v.t = "arr" ->
            Arr([i \in 1..Len(v.a) |->
                    IF v.a[i].t = "undef" THEN Null ELSE JsonStringify(v.a[i])])
      [] OTHER -> v

\* TOML.stringify(v) read back: keys holding undefined or null are skipped
RECURSIVE TomlStringify(_)
TomlStringify(v) ==
    CASE v.t = "map" ->
            Map([k \in {x \in DOMAIN v.m : v.m[x].t \notin {"undef", "null"}} |->
                    TomlStringify(v.m[k])])
      [] v.t = "arr" -> Arr([i \in 1..Len(v.a) |-> TomlStringify(v.a[i])])
      [] OTHER -> v

\* yaml.dump(v) refuses a tree that holds undefined
RECURSIVE HasUndef(_)
HasUndef(v) ==
    CASE v.t = "undef" -> TRUE
      [] v.t = "map" -> \E k \in DOMAIN v.m : HasUndef(v.m[k])
      [] v.t = "arr" -> \E i \in 1..Len(v.a) : HasUndef(v.a[i])
      [] OTHER -> FALSE

----------------------------------------------------------------------------
(* formats/json.ts                                                         *)

\* detectIndent: the indentation of the first indented property, else 2 spaces
detectIndent(file) == IF file.indent = "none" THEN "sp2" ELSE file.indent

\* jsonc.parse(content): fault tolerant, returns what it recovered and never throws
jsoncParse(file) == file.root

\* readJsonConfig
readJsonConfig(file) ==
    IF ~existsSync(file) THEN [threw |-> FALSE, error |-> "", value |-> EmptyMap]
    ELSE IF file.kind = "dir" THEN [threw |-> TRUE, error |-> "EISDIR", value |-> Undef]
    ELSE [threw |-> FALSE, error |-> "", value |-> jsoncParse(file)]

\* jsonc-parser's findNodeAtLocation: the node at `path`, Undef when there is none
RECURSIVE findNodeAtLocation(_, _)
findNodeAtLocation(root, path) ==
    IF root.t = "undef" THEN Undef
    ELSE IF path = <<>> THEN root
    ELSE IF root.t = "map" /\ Head(path) \in DOMAIN root.m
         THEN findNodeAtLocation(root.m[Head(path)], Tail(path))
         ELSE Undef

\* the document with the property `key` of the object at `path` set to `value`
RECURSIVE SetAt(_, _, _, _)
SetAt(root, path, key, value) ==
    IF path = <<>> THEN Map((key :> value) @@ root.m)
    ELSE Map((Head(path) :> SetAt(root.m[Head(path)], Tail(path), key, value)) @@ root.m)

\* jsonc.modify(text, path, value) followed by jsonc.applyEdits: the missing
\* part of the path is wrapped around the value, the object that holds the
\* first missing (or the last) segment gets the property, and a holder that is
\* not an object raises "Can not add ... to parent of type ..."
RECURSIVE jsoncModify(_, _, _)
jsoncModify(root, path, value) ==
    LET lastSegment == path[Len(path)]
        rest == SubSeq(path, 1, Len(path) - 1)
        parent == findNodeAtLocation(root, rest)
    IN  IF parent.t = "undef"
        THEN IF rest = <<>>
             THEN [threw |-> FALSE, root |-> Map(lastSegment :> value)]
             ELSE jsoncModify(root, rest, Map(lastSegment :> value))
        ELSE IF parent.t = "map"
             THEN [threw |-> FALSE, root |-> SetAt(root, rest, lastSegment, value)]
             ELSE [threw |-> TRUE, root |-> root]

\* a writer that serialises the merged document whatever the file holds
writeJsonConfigFull(file, config, configKey) ==
    IF file.kind = "dir" THEN Threw("EISDIR")
    ELSE
    LET existingConfig == IF existsSync(file) THEN file.root ELSE EmptyMap
    IN  Wrote(File(TRUE, JsonStringify(deepMerge(existingConfig, config)), {}, "sp2"))

\* writeJsonConfig
writeJsonConfig(file, config, configKey) ==
    IF file.kind = "dir" THEN Threw("EISDIR")
    ELSE
    LET originalContent == existsSync(file) /\ ~file.empty    \* if (originalContent)
        existingConfig == IF existsSync(file) THEN jsoncParse(file) ELSE EmptyMap
        mergedConfig == deepMerge(existingConfig, config)
        newValue == getNestedValue(mergedConfig, configKey)
        edit == jsoncModify(file.root, configKey, JsonStringify(newValue))
    IN  IF originalContent /\ ~edit.threw
        THEN Wrote(File(file.wf, edit.root, file.cmts \ {"inside"}, detectIndent(file)))
        ELSE Wrote(File(TRUE, JsonStringify(mergedConfig), {}, "sp2"))

\* which write of writeJsonConfig produces the file: the edits of jsonc.modify
\* ("patch"), JSON.stringify after a caught error of the edit ("fallback"), or
\* JSON.stringify with no edit attempted ("full")
jsonWriteStrategy(file, config, configKey) ==
    LET originalContent == existsSync(file) /\ ~file.empty    \* if (originalContent)
        existingConfig == IF existsSync(file) THEN jsoncParse(file) ELSE EmptyMap
        mergedConfig == deepMerge(existingConfig, config)
        newValue == getNestedValue(mergedConfig, configKey)
        edit == jsoncModify(file.root, configKey, JsonStringify(newValue))
    IN  IF originalContent
        THEN IF edit.threw THEN "fallback" ELSE "patch"
        ELSE "full"

\* setNestedValue(obj, path, value), returning the object it leaves
RECURSIVE setNestedValue(_, _, _)
setNestedValue(obj, keys, value) ==
    IF keys = <<>> THEN obj
    ELSE IF Len(keys) = 1 THEN Map((Head(keys) :> value) @@ Spread(obj))
    ELSE LET key == Head(keys)
             held == Prop(obj, key)
             current == IF ~Truthy(held) \/ ~IsObject(held) THEN EmptyMap ELSE held
         IN  Map((key :> setNestedValue(current, Tail(keys), value)) @@ Spread(obj))

----------------------------------------------------------------------------
(* formats/yaml.ts                                                         *)

\* readYamlConfig: yaml.load throws on a malformed text; a falsy document is {}
readYamlConfig(file) ==
    IF ~existsSync(file) THEN [threw |-> FALSE, error |-> "", value |-> EmptyMap]
    ELSE IF file.kind = "dir" THEN [threw |-> TRUE, error |-> "EISDIR", value |-> Undef]
    ELSE IF ~file.wf THEN [threw |-> TRUE, error |-> "YAMLException", value |-> Undef]
    ELSE [threw |-> FALSE, error |-> "",
          value |-> IF Truthy(file.root) THEN file.root ELSE EmptyMap]

\* writeYamlConfig
writeYamlConfig(file, config) ==
    LET existing == readYamlConfig(file)
        mergedConfig == deepMerge(existing.value, config)
    IN  IF existing.threw THEN Threw(existing.error)
        ELSE IF HasUndef(mergedConfig) THEN Threw("YAMLException")
        ELSE Wrote(File(TRUE, mergedConfig, {}, "sp2"))

----------------------------------------------------------------------------
(* formats/toml.ts                                                         *)

\* readTomlConfig: TOML.parse throws on a malformed text; a document is a table
readTomlConfig(file) ==
    IF ~existsSync(file) THEN [threw |-> FALSE, error |-> "", value |-> EmptyMap]
    ELSE IF file.kind = "dir" THEN [threw |-> TRUE, error |-> "EISDIR", value |-> Undef]
    ELSE IF ~file.wf THEN [threw |-> TRUE, error |-> "TomlError", value |-> Undef]
    ELSE [threw |-> FALSE, error |-> "",
          value |-> IF file.root.t = "undef" THEN EmptyMap ELSE file.root]

\* writeTomlConfig
writeTomlConfig(file, config) ==
    LET existing == readTomlConfig(file)
        mergedConfig == deepMerge(existing.value, config)
    IN  IF existing.threw THEN Threw(existing.error)
        ELSE Wrote(File(TRUE, TomlStringify(mergedConfig), {}, "none"))

----------------------------------------------------------------------------
(* formats/index.ts                                                        *)

readConfig(file, format) ==
    CASE format = "json" -> readJsonConfig(file)
      [] format = "yaml" -> readYamlConfig(file)
      [] format = "toml" -> readTomlConfig(file)
      [] OTHER -> [threw |-> TRUE, error |-> "Unsupported config format", value |-> Undef]

writeConfig(file, config, format, configKey) ==
    CASE format = "json" -> writeJsonConfig(file, config, configKey)
      [] format = "yaml" -> writeYamlConfig(file, config)
      [] format = "toml" -> writeTomlConfig(file, config)
      [] OTHER -> Threw("Unsupported config format")

buildConfigWithKey(configKey, serverName, serverConfig) ==
    setNestedValue(EmptyMap, configKey, Map(serverName :> serverConfig))

----------------------------------------------------------------------------
(* agents.ts: the per-agent transforms and the registry                    *)

\* a || b
OrElse(a, b) == IF Truthy(a) THEN a ELSE b

\* a transform that hands the transport on as Goose's type
transformGooseConfigSameType(serverName, config) ==
    IF Truthy(Prop(config, "url"))
    THEN Map([name |-> Str(serverName),
              type |-> OrElse(Prop(config, "type"), Str("streamable_http")),
              url |-> Prop(config, "url"),
              enabled |-> Bool(TRUE),
              timeout |-> Num(300)])
    ELSE Map([name |-> Str(serverName),
              cmd |-> Prop(config, "command"),
              args |-> OrElse(Prop(config, "args"), Arr(<<>>)),
              enabled |-> Bool(TRUE),
              envs |-> OrElse(Prop(config, "env"), EmptyMap),
              type |-> Str("stdio"),
              timeout |-> Num(300)])

transformGooseConfig(serverName, config) ==
    IF Truthy(Prop(config, "url"))
    THEN Map([name |-> Str(serverName),
              type |-> IF Prop(config, "type") = Str("sse")
                       THEN Str("sse") ELSE Str("streamable_http"),
              url |-> Prop(config, "url"),
              enabled |-> Bool(TRUE),
              timeout |-> Num(300)])
    ELSE Map([name |-> Str(serverName),
              cmd |-> Prop(config, "command"),
              args |-> OrElse(Prop(config, "args"), Arr(<<>>)),
              enabled |-> Bool(TRUE),
              envs |-> OrElse(Prop(config, "env"), EmptyMap),
              type |-> Str("stdio"),
              timeout |-> Num(300)])

transformZedConfig(serverName, config) ==
    IF Truthy(Prop(config, "url"))
    THEN Map([source |-> Str("custom"),
              type |-> OrElse(Prop(config, "type"), Str("http")),
              url |-> Prop(config, "url"),
              headers |-> OrElse(Prop(config, "headers"), EmptyMap)])
    ELSE Map([source |-> Str("custom"),
              command |-> Prop(config, "command"),
              args |-> OrElse(Prop(config, "args"), Arr(<<>>)),
              env |-> OrElse(Prop(config, "env"), EmptyMap)])

transformOpenCodeConfig(serverName, config) ==
    IF Truthy(Prop(config, "url"))
    THEN Map([type |-> Str("remote"),
              url |-> Prop(config, "url"),
              enabled |-> Bool(TRUE),
              headers |-> Prop(config, "headers")])
    ELSE Map([type |-> Str("local"),
              command |-> Prop(config, "command"),
              args |-> OrElse(Prop(config, "args"), Arr(<<>>)),
              enabled |-> Bool(TRUE),
              environment |-> OrElse(Prop(config, "env"), EmptyMap)])

transformCodexConfig(serverName, config) ==
    IF Truthy(Prop(config, "url"))
    THEN Map([type |-> OrElse(Prop(config, "type"), Str("http")),
              url |-> Prop(config, "url"),
              headers |-> Prop(config, "headers")])
    ELSE Map([command |-> Prop(config, "command"),
              args |-> OrElse(Prop(config, "args"), Arr(<<>>)),
              env |-> Prop(config, "env")])

\* The transform of an agent with two schemas: at project level the record
\* passes through unchanged, at global level it gains tools: ["*"] (and a
\* local server type: "stdio").
transformGitHubCopilotCliConfig(serverName, config, local) ==
    IF local THEN config
    ELSE IF Truthy(Prop(config, "url"))
    THEN Map([k \in {"type", "url", "tools"} \cup ({"headers"} \cap DOMAIN config.m) |->
                  IF k = "tools" THEN Arr(<<Str("*")>>) ELSE Prop(config, k)])
    ELSE Map([k \in {"type", "command", "args", "tools"} \cup ({"env"} \cap DOMAIN config.m) |->
                  CASE k = "tools" -> Arr(<<Str("*")>>)
                    [] k = "type" -> Str("stdio")
                    [] OTHER -> Prop(config, k)])

\* No path or key of its own is written "" / <<>> (undefined in the source).
Agent(configPath, localConfigPath, configKey, format, transformConfig) ==
    [configPath |-> configPath, localConfigPath |-> localConfigPath,
     configKey |-> configKey, localConfigKey |-> <<>>,
     format |-> format, transformConfig |-> transformConfig]

\* Copilot CLI: project installs go to VS Code's file under its `servers` key,
\* global installs to the CLI's own file under `mcpServers`
githubCopilotCli ==
    [Agent("~/.copilot/mcp-config.json", ".vscode/mcp.json", <<"mcpServers">>, "json",
           "github-copilot-cli") EXCEPT !.localConfigKey = <<"servers">>]

agents ==
    ("github-copilot-cli" :> githubCopilotCli) @@
    [a \in {"claude-code", "claude-desktop", "codex", "cursor", "gemini-cli",
            "goose", "opencode", "vscode", "zed"} |->
        CASE a = "claude-code" ->
                Agent("~/.claude.json", ".mcp.json", <<"mcpServers">>, "json", "")
          [] a = "claude-desktop" ->
                Agent("~app/Claude/claude_desktop_config.json", "", <<"mcpServers">>,
                      "json", "")
          [] a = "codex" ->
                Agent("~/.codex/config.toml", ".codex/config.toml", <<"mcp_servers">>,
                      "toml", "codex")
          [] a = "cursor" ->
                Agent("~/.cursor/mcp.json", ".cursor/mcp.json", <<"mcpServers">>, "json", "")
          [] a = "gemini-cli" ->
                Agent("~/.gemini/settings.json", ".gemini/settings.json", <<"mcpServers">>,
                      "json", "")
          [] a = "goose" ->
                Agent("~/.config/goose/config.yaml", ".goose/config.yaml", <<"extensions">>,
                      "yaml", "goose")
          [] a = "opencode" ->
                Agent("~/.config/opencode/opencode.json", ".opencode.json", <<"mcp">>,
                      "json", "opencode")
          [] a = "vscode" ->
                Agent("~code/mcp.json", ".vscode/mcp.json", <<"servers">>, "json", "")
          [] a = "zed" ->
                Agent("~app/zed/settings.json", ".zed/settings.json", <<"context_servers">>,
                      "json", "zed")]

\* agent.transformConfig
\*   ? agent.transformConfig(serverName, serverConfig, { local: Boolean(options.local) })
\*   : serverConfig
applyTransform(agent, serverName, serverConfig, local) ==
    CASE agent.transformConfig = "goose" -> transformGooseConfig(serverName, serverConfig)
      [] agent.transformConfig = "github-copilot-cli" ->
            transformGitHubCopilotCliConfig(serverName, serverConfig, local)
      [] agent.transformConfig = "zed" -> transformZedConfig(serverName, serverConfig)
      [] agent.transformConfig = "opencode" -> transformOpenCodeConfig(serverName, serverConfig)
      [] agent.transformConfig = "codex" -> transformCodexConfig(serverName, serverConfig)
      [] OTHER -> serverConfig

----------------------------------------------------------------------------
(* installer.ts                                                            *)

\* join(cwd, localConfigPath): the model has one working directory
JoinCwd(localConfigPath) == "cwd/" \o localConfigPath

\* Options of a call.  local: options.local; cwd: options.cwd is given;
\* cwdOk: process.cwd() answers (it throws once the directory is removed).
Options(local, cwd, cwdOk) == [local |-> local, cwd |-> cwd, cwdOk |-> cwdOk]

\* a resolver that knows the global path only
getConfigPathGlobal(agent, options) == [threw |-> FALSE, path |-> agent.configPath]

\* getConfigPath; process.cwd() is called only when no cwd is given
getConfigPath(agent, options) ==
    IF options.local /\ agent.localConfigPath # ""
    THEN IF ~options.cwd /\ ~options.cwdOk
         THEN [threw |-> TRUE, path |-> ""]
         ELSE [threw |-> FALSE, path |-> JoinCwd(agent.localConfigPath)]
    ELSE [threw |-> FALSE, path |-> agent.configPath]

\* a resolver that knows the global key only
getConfigKeyGlobal(agent, options) == agent.configKey

getConfigKey(agent, options) ==
    IF options.local /\ agent.localConfigKey # <<>>
    THEN agent.localConfigKey
    ELSE agent.configKey

\* An outcome of a call: it threw to its caller, or returned `value`;
\* `fs` is the filesystem it leaves.
Outcome(threw, value, fsys) == [threw |-> threw, value |-> value, fs |-> fsys]

NoResult == [success |-> FALSE, path |-> "", error |-> ""]

\* an install that also writes the agent's global config file
installServerForAgentBoth(fsys, serverName, serverConfig, agentType, options) ==
    LET agent == agents[agentType]
        configPath == getConfigPath(agent, options)
    IN  IF configPath.threw THEN Outcome(TRUE, NoResult, fsys)
        ELSE
        LET transformedConfig == applyTransform(agent, serverName, serverConfig, options.local)
            configKey == getConfigKey(agent, options)
            config == buildConfigWithKey(configKey, serverName, transformedConfig)
            written == writeConfig(fsys[configPath.path], config, agent.format, configKey)
        IN  IF written.threw
            THEN Outcome(FALSE,
                         [success |-> FALSE, path |-> configPath.path, error |-> written.error],
                         fsys)
            ELSE Outcome(FALSE,
                         [success |-> TRUE, path |-> configPath.path, error |-> ""],
                         [fsys EXCEPT ![configPath.path] = written.file,
                                      ![agent.configPath] = written.file])

\* installServerForAgent: the path is resolved before the try block; inside
\* it the transform, the patch and the codec write, whose exception becomes
\* { success: false, path, error }
installServerForAgent(fsys, serverName, serverConfig, agentType, options) ==
    LET agent == agents[agentType]
        configPath == getConfigPath(agent, options)
    IN  IF configPath.threw THEN Outcome(TRUE, NoResult, fsys)
        ELSE
        LET transformedConfig == applyTransform(agent, serverName, serverConfig, options.local)
            configKey == getConfigKey(agent, options)
            config == buildConfigWithKey(configKey, serverName, transformedConfig)
            written == writeConfig(fsys[configPath.path], config, agent.format, configKey)
        IN  IF written.threw
            THEN Outcome(FALSE,
                         [success |-> FALSE, path |-> configPath.path, error |-> written.error],
                         fsys)
            ELSE Outcome(FALSE,
                         [success |-> TRUE, path |-> configPath.path, error |-> ""],
                         [fsys EXCEPT ![configPath.path] = written.file])

\* isServerInstalled: the read is not guarded, and the key walked is agent.configKey
RECURSIVE WalkKeys(_, _)
WalkKeys(current, keys) ==
    IF keys = <<>> THEN [found |-> TRUE, value |-> current]
    ELSE IF Truthy(current) /\ IsObject(current) /\ HasKey(current, Head(keys))
         THEN WalkKeys(Prop(current, Head(keys)), Tail(keys))
         ELSE [found |-> FALSE, value |-> Undef]

isServerInstalled(fsys, serverName, agentType, options) ==
    LET agent == agents[agentType]
        configPath == getConfigPath(agent, options)
    IN  IF configPath.threw THEN Outcome(TRUE, FALSE, fsys)
        ELSE IF ~existsSync(fsys[configPath.path]) THEN Outcome(FALSE, FALSE, fsys)
        ELSE
        LET config == readConfig(fsys[configPath.path], agent.format)
            walked == WalkKeys(config.value, agent.configKey)
        IN  IF config.threw THEN Outcome(TRUE, FALSE, fsys)
            ELSE IF ~walked.found THEN Outcome(FALSE, FALSE, fsys)
            ELSE IF Truthy(walked.value) /\ IsObject(walked.value)
                 THEN Outcome(FALSE, HasKey(walked.value, serverName), fsys)
                 ELSE Outcome(FALSE, FALSE, fsys)

----------------------------------------------------------------------------
(* JavaScript strings: a string is the sequence of its characters          *)

Lower == <<"a", "b", "c", "d", "e", "f", "g", "h", "i", "j", "k", "l", "m",
           "n", "o", "p", "q", "r", "s", "t", "u", "v", "w", "x", "y", "z">>
Upper == <<"A", "B", "C", "D", "E", "F", "G", "H", "I", "J", "K", "L", "M",
           "N", "O", "P", "Q", "R", "S", "T", "U", "V", "W", "X", "Y", "Z">>
Digits == {"0", "1", "2", "3", "4", "5", "6", "7", "8", "9"}
Letters == {Lower[i] : i \in DOMAIN Lower} \cup {Upper[i] : i \in DOMAIN Upper}

\* the characters String.prototype.trim removes
WhiteSpace == {" ", "\t", "\n"}

\* the string of TLA+ with these characters
RECURSIVE ToStr(_)
ToStr(cs) == IF cs = <<>> THEN "" ELSE Head(cs) \o ToStr(Tail(cs))

\* s.startsWith(prefix), s.endsWith(suffix)
startsWith(s, prefix) ==
    Len(prefix) <= Len(s) /\ SubSeq(s, 1, Len(prefix)) = prefix
endsWith(s, suffix) ==
    Len(suffix) <= Len(s) /\ SubSeq(s, Len(s) - Len(suffix) + 1, Len(s)) = suffix

\* s.includes(c) for a one-character c
includes(s, c) == \E i \in 1..Len(s) : s[i] = c

\* s.slice(from) and s.slice(0, to), positions counted from 0
sliceFrom(s, from) == SubSeq(s, from + 1, Len(s))
sliceTo(s, to) == SubSeq(s, 1, to)

\* s.indexOf(c, from) and s.lastIndexOf(c): positions from 0, -1 when absent
indexOf(s, c, from) ==
    LET at == {i \in (from + 1)..Len(s) : s[i] = c}
    IN  IF at = {} THEN -1 ELSE (CHOOSE i \in at : \A j \in at : i <= j) - 1
lastIndexOf(s, c) ==
    LET at == {i \in 1..Len(s) : s[i] = c}
    IN  IF at = {} THEN -1 ELSE (CHOOSE i \in at : \A j \in at : i >= j) - 1

\* s.trim()
RECURSIVE trimStart(_)
trimStart(s) ==
    IF s # <<>> /\ Head(s) \in WhiteSpace THEN trimStart(Tail(s)) ELSE s
RECURSIVE trimEnd(_)
trimEnd(s) ==
    IF s # <<>> /\ s[Len(s)] \in WhiteSpace THEN trimEnd(SubSeq(s, 1, Len(s) - 1)) ELSE s
trim(s) == trimEnd(trimStart(s))

\* s.split(c) for a one-character c: always at least one piece
RECURSIVE split(_, _)
split(s, c) ==
    LET at == indexOf(s, c, 0)
    IN  IF at = -1 THEN <<s>>
        ELSE <<sliceTo(s, at)>> \o split(sliceFrom(s, at + 1), c)

\* s.toLowerCase()
toLowerCase(s) ==
    [i \in 1..Len(s) |->
        IF \E k \in DOMAIN Upper : Upper[k] = s[i]
        THEN Lower[CHOOSE k \in DOMAIN Upper : Upper[k] = s[i]]
        ELSE s[i]]

\* pieces.join(c)
RECURSIVE join(_, _)
join(pieces, c) ==
    IF pieces = <<>> THEN <<>>
    ELSE IF Len(pieces) = 1 THEN pieces[1]
    ELSE pieces[1] \o <<c>> \o join(Tail(pieces), c)

\* new URL(input).hostname for an input that starts with http:// or https://
\* and is made of letters, digits, "-", ".", "/", ":", "@", "?", "#" and white
\* space: tabs and newlines are dropped, the slashes after the scheme are
\* skipped, the authority ends at the first "/", "?" or "#", credentials end at
\* its last "@", the port follows the first ":" and is made of digits; the
\* constructor throws on an empty host, on white space in the host and on a
\* port that is not a number.  Labels may be empty; the host is lower-cased.
RECURSIVE skipSlashes(_)
skipSlashes(s) == IF s # <<>> /\ Head(s) = "/" THEN skipSlashes(Tail(s)) ELSE s

urlHostname(input) ==
    LET clean == SelectSeq(input, LAMBDA ch : ch \notin {"\t", "\n"})
        afterScheme == sliceFrom(clean, indexOf(clean, ":", 0) + 1)
        rest == skipSlashes(afterScheme)
        ends == {i \in 1..Len(rest) : rest[i] \in {"/", "?", "#"}}
        authority == IF ends = {} THEN rest
                     ELSE sliceTo(rest, (CHOOSE i \in ends : \A j \in ends : i <= j) - 1)
        hostPort == sliceFrom(authority, lastIndexOf(authority, "@") + 1)
        colon == indexOf(hostPort, ":", 0)
        host == IF colon = -1 THEN hostPort ELSE sliceTo(hostPort, colon)
        port == IF colon = -1 THEN <<>> ELSE sliceFrom(hostPort, colon + 1)
    IN  IF \/ host = <<>>
           \/ \E i \in 1..Len(host) : host[i] \in WhiteSpace
           \/ \E i \in 1..Len(port) : port[i] \notin Digits
        THEN [threw |-> TRUE, hostname |-> <<>>]
        ELSE [threw |-> FALSE, hostname |-> toLowerCase(host)]

----------------------------------------------------------------------------
(* source-parser.ts                                                        *)

Http == <<"h", "t", "t", "p", ":", "/", "/">>
Https == <<"h", "t", "t", "p", "s", ":", "/", "/">>
Npx == <<"n", "p", "x">>
Node == <<"n", "o", "d", "e">>
Python == <<"p", "y", "t", "h", "o", "n">>
McpServer == <<"m", "c", "p", "-", "s", "e", "r", "v", "e", "r">>

isUrl(input) == startsWith(input, Http) \/ startsWith(input, Https)

\* a check that looks for the launchers only
isCommandLauncherOnly(input) ==
    \/ startsWith(input, Npx \o <<" ">>)
    \/ startsWith(input, Node \o <<" ">>)
    \/ startsWith(input, Python \o <<" ">>)

isCommand(input) ==
    IF includes(input, " ") THEN TRUE
    ELSE IF \/ startsWith(input, Npx \o <<" ">>)
            \/ startsWith(input, Node \o <<" ">>)
            \/ startsWith(input, Python \o <<" ">>)
         THEN TRUE
         ELSE FALSE

\* /^[a-z0-9][\w.-]*(@[\w.-]+)?$/i
SimplePackageName(input) ==
    LET word == Letters \cup Digits \cup {"_", ".", "-"}
        ats == {i \in 1..Len(input) : input[i] = "@"}
    IN  /\ input # <<>>
        /\ input[1] \in Letters \cup Digits
        /\ \A i \in 2..Len(input) : input[i] \in word \cup {"@"}
        /\ Cardinality(ats) <= 1
        /\ \A i \in ats : i < Len(input)

isPackageName(input) ==
    IF startsWith(input, <<"@">>) /\ includes(input, "/") THEN TRUE
    ELSE SimplePackageName(input)

commonTlds ==
    {<<"c", "o", "m">>, <<"o", "r", "g">>, <<"n", "e", "t">>, <<"i", "o">>,
     <<"d", "e", "v">>, <<"a", "i">>, <<"t", "e", "c", "h">>, <<"c", "o">>,
     <<"a", "p", "p">>, <<"c", "l", "o", "u", "d">>, <<"s", "h">>, <<"r", "u", "n">>}

\* the labels extractBrandFromHostname passes over
genericLabels == {<<"m", "c", "p">>, <<"a", "p", "i">>, <<"w", "w", "w">>}

\* a variant that passes over the top-level domains only
extractBrandKeepGeneric(hostname) ==
    LET parts == split(hostname, ".")
        meaningfulParts == SelectSeq(parts, LAMBDA part : toLowerCase(part) \notin commonTlds)
    IN  IF Len(meaningfulParts) > 0 THEN meaningfulParts[1]
        ELSE IF Len(parts) >= 2 THEN parts[Len(parts) - 1]
        ELSE McpServer

extractBrandFromHostname(hostname) ==
    LET parts == split(hostname, ".")
        meaningfulParts ==
            SelectSeq(parts, LAMBDA part :
                /\ toLowerCase(part) \notin commonTlds
                /\ toLowerCase(part) \notin genericLabels)
    IN  IF Len(meaningfulParts) > 0 THEN meaningfulParts[1]
        ELSE IF Len(parts) >= 2 THEN parts[Len(parts) - 1]
        ELSE McpServer

\* name.replace(/^prefix/, "") and name.replace(/suffix$/, "")
stripPrefix(name, prefix) ==
    IF startsWith(name, prefix) THEN sliceFrom(name, Len(prefix)) ELSE name
stripSuffix(name, suffix) ==
    IF endsWith(name, suffix) THEN sliceTo(name, Len(name) - Len(suffix)) ELSE name

extractPackageName(input) ==
    LET atIndex == lastIndexOf(input, "@")
        scoped == startsWith(input, <<"@">>)
        unversioned ==
            IF atIndex > 0 /\ ~scoped THEN sliceTo(input, atIndex)
            ELSE IF scoped /\ indexOf(input, "@", 1) > 0
                 THEN sliceTo(input, indexOf(input, "@", 1))
                 ELSE input
        parts == split(unversioned, "/")
        unscoped ==
            IF startsWith(unversioned, <<"@">>) /\ includes(unversioned, "/")
            THEN IF parts[2] # <<>> THEN parts[2] ELSE unversioned
            ELSE unversioned
        name == stripSuffix(stripPrefix(stripPrefix(unscoped, McpServer \o <<"-">>),
                                        <<"s", "e", "r", "v", "e", "r", "-">>),
                            <<"-", "m", "c", "p">>)
    IN  IF name # <<>> THEN name ELSE McpServer

\* the first piece from `startIndex` on that is not empty and is not a flag
RECURSIVE firstPositional(_, _)
firstPositional(parts, i) ==
    IF i > Len(parts) THEN McpServer
    ELSE IF parts[i] # <<>> /\ ~startsWith(parts[i], <<"-">>)
         THEN extractPackageName(parts[i])
         ELSE firstPositional(parts, i + 1)

inferName(input, type) ==
    IF type = "remote"
    THEN LET url == urlHostname(input)
         IN  IF url.threw THEN McpServer ELSE extractBrandFromHostname(url.hostname)
    ELSE IF type = "command"
    THEN LET parts == split(input, " ")
             startIndex == IF parts[1] \in {Npx, Node, Python} THEN 2 ELSE 1
         IN  firstPositional(parts, startIndex)
    ELSE extractPackageName(input)

ParsedSource(type, value) ==
    [type |-> type, value |-> value, inferredName |-> inferName(value, type)]

parseSource(input) ==
    LET trimmed == trim(input)
    IN  IF isUrl(trimmed) THEN ParsedSource("remote", trimmed)
        ELSE IF isCommand(trimmed) THEN ParsedSource("command", trimmed)
        ELSE IF isPackageName(trimmed) THEN ParsedSource("package", trimmed)
        ELSE ParsedSource("package", trimmed)

----------------------------------------------------------------------------
(* installer.ts: buildServerConfig                                         *)

\* BuildServerConfigOptions; Undef stands for a field that is not given
BuildOptions(transport, headers) == [transport |-> transport, headers |-> headers]

\* the remote branch: options.transport ?? "http", and the headers when the
\* map has a key
buildRemote(parsed, options) ==
    LET config == [type |-> IF options.transport.t \in {"undef", "null"}
                            THEN Str("http") ELSE options.transport,
                   url |-> Str(ToStr(parsed.value))]
    IN  IF Truthy(options.headers) /\ DOMAIN Spread(options.headers) # {}
        THEN Map(("headers" :> options.headers) @@ config)
        ELSE Map(config)

\* the command branch: parsed.value.split(" ")
buildCommand(parsed) ==
    LET parts == split(parsed.value, " ")
    IN  Map([command |-> Str(ToStr(parts[1])),
             args |-> Arr([i \in 1..(Len(parts) - 1) |-> Str(ToStr(parts[i + 1]))])])

\* the package branch
buildPackage(parsed) ==
    Map([command |-> Str("npx"), args |-> Arr(<<Str("-y"), Str(ToStr(parsed.value))>>)])

\* a builder that hands npx the inferred name
buildServerConfigByName(parsed, options) ==
    IF parsed.type = "remote" THEN buildRemote(parsed, options)
    ELSE IF parsed.type = "command" THEN buildCommand(parsed)
    ELSE Map([command |-> Str("npx"),
              args |-> Arr(<<Str("-y"), Str(ToStr(parsed.inferredName))>>)])

\* a builder that splits a command into its words
buildServerConfigWords(parsed, options) ==
    IF parsed.type = "remote" THEN buildRemote(parsed, options)
    ELSE IF parsed.type = "command"
    THEN LET parts == SelectSeq(split(parsed.value, " "), LAMBDA part : part # <<>>)
         IN  Map([command |-> Str(ToStr(parts[1])),
                  args |-> Arr([i \in 1..(Len(parts) - 1) |-> Str(ToStr(parts[i + 1]))])])
    ELSE buildPackage(parsed)

\* a builder that attaches whatever header map it is given
buildServerConfigHeaders(parsed, options) ==
    IF parsed.type = "remote"
    THEN IF Truthy(options.headers)
         THEN Map(("headers" :> options.headers) @@ buildRemote(parsed, options).m)
         ELSE buildRemote(parsed, options)
    ELSE IF parsed.type = "command" THEN buildCommand(parsed)
    ELSE buildPackage(parsed)

\* a builder that keeps the source value as url in every variant
buildServerConfigUrl(parsed, options) ==
    IF parsed.type = "remote" THEN buildRemote(parsed, options)
    ELSE Map(("url" :> Str(ToStr(parsed.value))) @@
             (IF parsed.type = "command" THEN buildCommand(parsed)
              ELSE buildPackage(parsed)).m)

buildServerConfig(parsed, options) ==
    IF parsed.type = "remote" THEN buildRemote(parsed, options)
    ELSE IF parsed.type = "command" THEN buildCommand(parsed)
    ELSE buildPackage(parsed)

----------------------------------------------------------------------------
(* The calls made and the files they meet                                  *)

MaxCalls == 2

\* the agents the calls are made for: each format, with and without a
\* transform, with and without a project-level path
TestAgents == {"cursor", "claude-desktop", "codex", "goose"}

\* the agents that share a project-level file under keys of their own
KeyAgents == {"github-copilot-cli", "vscode"}

ServerNames == {"server1", "server2"}

RemoteA == Map([type |-> Str("http"), url |-> Str("https://a.example/mcp")])
RemoteB == Map([type |-> Str("sse"), url |-> Str("https://b.example/mcp"),
                headers |-> Map([h |-> Str("v")])])
LocalP == Map([command |-> Str("npx"), args |-> Arr(<<Str("-y"), Str("pkg")>>)])
ServerConfigs == {RemoteA, RemoteB, LocalP}

\* options.local, and how the working directory is found
OptionSets ==
    {Options(FALSE, TRUE, TRUE), Options(TRUE, TRUE, TRUE), Options(TRUE, FALSE, FALSE)}

Paths ==
    {agents[a].configPath : a \in TestAgents} \cup
    {JoinCwd(agents[a].localConfigPath) : a \in {x \in TestAgents :
                                                   agents[x].localConfigPath # ""}}

\* the config paths of the agents whose key depends on the scope
KeyPaths ==
    {agents[a].configPath : a \in KeyAgents} \cup
    {JoinCwd(agents[a].localConfigPath) : a \in KeyAgents}

\* the agent whose configuration lives at `path`
AgentAt(path) ==
    CHOOSE a \in DOMAIN agents :
        path \in {agents[a].configPath, JoinCwd(agents[a].localConfigPath)}

\* what serialising `v` in `format` and reading it back gives
Stored(v, format) ==
    CASE format = "json" -> JsonStringify(v)
      [] format = "toml" -> TomlStringify(v)
      [] OTHER -> v

\* The files a call may find at the path of `agentType`: written by the agent
\* itself, by an earlier install, by hand, or damaged.
SeedFiles(agentType) ==
    LET agent == agents[agentType]
        key == agent.configKey[1]
        entry == Stored(applyTransform(agent, "server1", RemoteA, FALSE), agent.format)
        servers == Map("server1" :> entry)
    IN  {EmptyFile, Dir,
         File(TRUE, Map(("fooBar" :> Num(1)) @@ (key :> servers)),
              IF agent.format = "json" THEN {"outside", "inside"} ELSE {"outside"}, "sp4"),
         File(FALSE, IF agent.format = "json" THEN Map("fooBar" :> Num(1)) ELSE Undef,
              {}, "sp2"),
         File(TRUE, Map(key :> Str("x")), {}, "tab"),
         File(TRUE, Map(key :> Arr(<<Str("x")>>)), {}, "none")}
        \cup
        (IF agent.format = "toml" THEN {}
         ELSE {File(TRUE, Arr(<<Str("x")>>), {"outside"}, "none"),
               File(TRUE, Undef, {"outside"}, "none")})

NoCall ==
    [op |-> "none", serverName |-> "", serverConfig |-> Undef, agentType |-> "",
     options |-> Options(FALSE, FALSE, FALSE), path |-> "", pre |-> Absent,
     threw |-> FALSE, result |-> NoResult, installed |-> FALSE]

Idle ==
    [active |-> FALSE, serverName |-> "", serverConfig |-> Undef, agentTypes |-> <<>>,
     routing |-> [given |-> FALSE, map |-> NoKeys], options |-> Options(FALSE, FALSE, FALSE),
     i |-> 0, results |-> NoKeys, threw |-> FALSE, fs0 |-> NoKeys]

InitMerge ==
    /\ mTarget = Undef
    /\ mSource = Undef
    /\ mResult = Undef

\* no source string has been handed over
NoSource ==
    /\ sInput = <<>>
    /\ sParsed = Undef
    /\ sOptions = Undef
    /\ sConfig = Undef

\* no transform asked for, no command line, no prompt, no lock file call and
\* no .gitignore call
NoExt ==
    /\ tOut = Undef
    /\ cli = Undef
    /\ prompts = Undef
    /\ lock = Undef
    /\ ignore = Undef

Init ==
    /\ fs = [p \in Paths |-> Absent]
    /\ seeded = {}
    /\ last = NoCall
    /\ calls = 0
    /\ run = Idle
    /\ InitMerge
    /\ NoSource
    /\ NoExt

\* A file is already at a config path when the first call is made.
Seed(agentType, local, file) ==
    LET agent == agents[agentType]
        path == IF local THEN JoinCwd(agent.localConfigPath) ELSE agent.configPath
    IN  /\ calls = 0
        /\ calls < MaxCalls
        /\ ~run.active
        /\ local => agent.localConfigPath # ""
        /\ fs' = [fs EXCEPT ![path] = file]
        /\ seeded' = seeded \cup {path}
        /\ last' = [NoCall EXCEPT !.op = "seed", !.agentType = agentType, !.path = path]
        /\ calls' = calls + 1
        /\ UNCHANGED <<run, mTarget, mSource, mResult, srcVars, extVars>>

PathOf(agentType, options) ==
    LET configPath == getConfigPath(agents[agentType], options)
    IN  IF configPath.threw THEN "" ELSE configPath.path

InstallOne(serverName, serverConfig, agentType, options) ==
    LET out == installServerForAgent(fs, serverName, serverConfig, agentType, options)
        path == PathOf(agentType, options)
    IN  /\ calls < MaxCalls
        /\ ~run.active
        /\ fs' = out.fs
        /\ last' = [NoCall EXCEPT !.op = "installServerForAgent",
                                  !.serverName = serverName, !.serverConfig = serverConfig,
                                  !.agentType = agentType, !.options = options,
                                  !.path = path,
                                  !.pre = IF path = "" THEN Absent ELSE fs[path],
                                  !.threw = out.threw, !.result = out.value]
        /\ calls' = calls + 1
        /\ UNCHANGED <<seeded, run, mTarget, mSource, mResult, srcVars, extVars>>

Query(serverName, agentType, options) ==
    LET out == isServerInstalled(fs, serverName, agentType, options)
        path == PathOf(agentType, options)
    IN  /\ calls < MaxCalls
        /\ ~run.active
        /\ last' = [NoCall EXCEPT !.op = "isServerInstalled",
                                  !.serverName = serverName,
                                  !.agentType = agentType, !.options = options,
                                  !.path = path,
                                  !.pre = IF path = "" THEN Absent ELSE fs[path],
                                  !.threw = out.threw, !.installed = out.value]
        /\ calls' = calls + 1
        /\ UNCHANGED <<fs, seeded, run, mTarget, mSource, mResult, srcVars, extVars>>

\* installServer, one agent of the list per step.  routing.given: the options
\* hold a routing map; routing.map: the map (agent -> "local" | "global").
MaxAgents == 2

AgentLists == UNION {[1..n -> TestAgents] : n \in 1..MaxAgents}

Routings(agentTypes) ==
    {[given |-> FALSE, map |-> NoKeys]} \cup
    UNION {{[given |-> TRUE, map |-> m] : m \in [S -> {"local", "global"}]} :
              S \in SUBSET {agentTypes[i] : i \in 1..Len(agentTypes)}}

StartMany(serverName, serverConfig, agentTypes, routing, cwd) ==
    /\ ~run.active
    /\ last.op \in {"none", "seed"}
    /\ run' = [Idle EXCEPT !.active = TRUE, !.serverName = serverName,
                           !.serverConfig = serverConfig, !.agentTypes = agentTypes,
                           !.routing = routing, !.options = Options(FALSE, cwd, cwd),
                           !.i = 1, !.fs0 = fs]
    /\ last' = NoCall
    /\ UNCHANGED <<fs, seeded, calls, mTarget, mSource, mResult, srcVars, extVars>>

\* options.routing?.get(agentType)
RoutingOf(routing, agentType) ==
    IF routing.given /\ agentType \in DOMAIN routing.map
    THEN routing.map[agentType] ELSE "undefined"

\* options that leave the routing map unread
InstallOptionsGlobal(r, agentType) == Options(FALSE, r.options.cwd, r.options.cwdOk)

\* the options one pass of installServer's loop hands to installServerForAgent
InstallOptions(r, agentType) ==
    Options(RoutingOf(r.routing, agentType) = "local", r.options.cwd, r.options.cwdOk)

\* a loop that walks the list from its end
StepManyReverse ==
    /\ run.active
    /\ ~run.threw
    /\ run.i <= Len(run.agentTypes)
    /\ LET agentType == run.agentTypes[Len(run.agentTypes) + 1 - run.i]
           installOptions == InstallOptions(run, agentType)
           out == installServerForAgent(fs, run.serverName, run.serverConfig,
                                        agentType, installOptions)
       IN  /\ fs' = out.fs
           /\ run' = IF out.threw
                     THEN [run EXCEPT !.threw = TRUE]
                     ELSE [run EXCEPT !.i = run.i + 1,
                                      !.results = (agentType :> out.value) @@ run.results]
    /\ calls' = calls + 1
    /\ UNCHANGED <<seeded, last, mTarget, mSource, mResult, srcVars, extVars>>

\* one pass of the loop; an exception leaves the loop and the function
StepMany ==
    /\ run.active
    /\ ~run.threw
    /\ run.i <= Len(run.agentTypes)
    /\ LET agentType == run.agentTypes[run.i]
           installOptions == InstallOptions(run, agentType)
           out == installServerForAgent(fs, run.serverName, run.serverConfig,
                                        agentType, installOptions)
       IN  /\ fs' = out.fs
           /\ run' = IF out.threw
                     THEN [run EXCEPT !.threw = TRUE]
                     ELSE [run EXCEPT !.i = run.i + 1,
                                      !.results = (agentType :> out.value) @@ run.results]
    /\ calls' = calls + 1
    /\ UNCHANGED <<seeded, last, mTarget, mSource, mResult, srcVars, extVars>>

\* installServer hands back the result map, or the exception that ended it
ReturnMany ==
    /\ run.active
    /\ run.threw \/ run.i > Len(run.agentTypes)
    /\ last' = [op |-> "installServer", serverName |-> run.serverName,
                serverConfig |-> run.serverConfig, agentTypes |-> run.agentTypes,
                routing |-> run.routing, options |-> run.options,
                threw |-> run.threw, results |-> run.results, fs0 |-> run.fs0]
    /\ run' = Idle
    /\ UNCHANGED <<fs, seeded, calls, mTarget, mSource, mResult, srcVars, extVars>>

Next ==
    \/ \E a \in TestAgents, local \in BOOLEAN :
          \E file \in SeedFiles(a) : Seed(a, local, file)
    \/ \E n \in ServerNames, c \in ServerConfigs, a \in TestAgents, o \in OptionSets :
          InstallOne(n, c, a, o)

Spec == Init /\ [][Next]_vars

\* installs, and isServerInstalled asked in between
NextQuery ==
    \/ \E a \in TestAgents, local \in BOOLEAN :
          \E file \in SeedFiles(a) : Seed(a, local, file)
    \/ \E n \in ServerNames, c \in ServerConfigs, a \in TestAgents, o \in OptionSets :
          InstallOne(n, c, a, o)
    \/ \E n \in ServerNames, a \in TestAgents, o \in OptionSets : Query(n, a, o)

SpecQuery == Init /\ [][NextQuery]_vars

\* installServer called once, over files of which one may already be there
ManySeedFiles(agentType) ==
    {f \in SeedFiles(agentType) : f.kind = "dir" \/ (~f.empty /\ f.root.t \in {"map", "undef"}
                                                      /\ f.indent \in {"sp2", "sp4"})}

ManyConfigs == {RemoteA, LocalP}

NextMany ==
    \/ \E a \in TestAgents, local \in BOOLEAN :
          \E file \in ManySeedFiles(a) : Seed(a, local, file)
    \/ \E c \in ManyConfigs, l \in AgentLists, cwd \in BOOLEAN :
          \E r \in Routings(l) : StartMany("server1", c, l, r, cwd)
    \/ StepMany
    \/ ReturnMany

SpecMany == Init /\ [][NextMany]_vars

\* installServer called with every routing map over its agent list, in a
\* project where one config file may already be
RouteSeedFiles(agentType) ==
    {f \in ManySeedFiles(agentType) : f.kind = "file" /\ f.root.t = "map"}

NextRoute ==
    \/ \E a \in TestAgents, local \in BOOLEAN :
          \E file \in RouteSeedFiles(a) : Seed(a, local, file)
    \/ \E l \in AgentLists : \E r \in Routings(l) : StartMany("server2", RemoteA, l, r, TRUE)
    \/ StepMany
    \/ ReturnMany

SpecRoute == Init /\ [][NextRoute]_vars

\* installServer called once over a list of agents, where a config file or a
\* directory may already be at a path
OrderSeedFiles(agentType) ==
    {f \in ManySeedFiles(agentType) : f.kind = "dir" \/ f.root.t = "map"}

NextOrder ==
    \/ \E a \in TestAgents : \E file \in OrderSeedFiles(a) : Seed(a, FALSE, file)
    \/ \E l \in AgentLists :
          StartMany("server2", RemoteA, l, [given |-> FALSE, map |-> NoKeys], TRUE)
    \/ StepMany
    \/ ReturnMany

SpecOrder == Init /\ [][NextOrder]_vars

\* installs of one server, after at most one config file or directory was
\* put at some agent's path
NextFrame ==
    \/ \E a \in TestAgents, local \in BOOLEAN :
          \E file \in OrderSeedFiles(a) : Seed(a, local, file)
    \/ \E a \in TestAgents, o \in OptionSets : InstallOne("server1", RemoteA, a, o)

SpecFrame == Init /\ [][NextFrame]_vars

\* an install and the query for it, at one agent's config path that is absent
\* or holds a well-formed document
RegistryPaths ==
    {agents[a].configPath : a \in DOMAIN agents} \cup
    {JoinCwd(agents[a].localConfigPath) :
        a \in {x \in DOMAIN agents : agents[x].localConfigPath # ""}}

WellFormedFiles(agentType) ==
    {Absent} \cup {f \in SeedFiles(agentType) : f.kind = "file" /\ f.wf}

InitInstalled ==
    /\ \E a \in DOMAIN agents, o \in OptionSets :
          \E file \in WellFormedFiles(a) :
              /\ PathOf(a, o) # ""
              /\ fs = [p \in RegistryPaths |->
                          IF p = PathOf(a, o) THEN file ELSE Absent]
              /\ seeded = {PathOf(a, o)}
    /\ last = NoCall
    /\ calls = 0
    /\ run = Idle
    /\ InitMerge
    /\ NoSource
    /\ NoExt

\* the calls that resolve to the path the run is about
InstallThere(serverName, serverConfig, agentType, options) ==
    /\ PathOf(agentType, options) \in seeded
    /\ InstallOne(serverName, serverConfig, agentType, options)

QueryThere(serverName, agentType, options) ==
    /\ PathOf(agentType, options) \in seeded
    /\ Query(serverName, agentType, options)

NextInstalled ==
    \/ \E n \in ServerNames, c \in ServerConfigs, a \in DOMAIN agents, o \in OptionSets :
          InstallThere(n, c, a, o)
    \/ \E n \in ServerNames, a \in DOMAIN agents, o \in OptionSets : QueryThere(n, a, o)

SpecInstalled == InitInstalled /\ [][NextInstalled]_vars

\* installs for the agents whose key depends on the scope
NextKey ==
    \/ \E a \in KeyAgents, local \in BOOLEAN :
          \E file \in SeedFiles(a) : Seed(a, local, file)
    \/ \E n \in ServerNames, c \in ServerConfigs, a \in KeyAgents, o \in OptionSets :
          InstallOne(n, c, a, o)

InitKey ==
    /\ fs = [p \in KeyPaths |-> Absent]
    /\ seeded = {}
    /\ last = NoCall
    /\ calls = 0
    /\ run = Idle
    /\ InitMerge
    /\ NoSource
    /\ NoExt

SpecKey == InitKey /\ [][NextKey]_vars

----------------------------------------------------------------------------
(* A source string on its way from the command line to a config file       *)

MaxLabels == 3
MaxTokens == 3

\* host names: up to MaxLabels labels, empty ones among them
UrlLabels ==
    {<<>>, <<"m", "c", "p">>, <<"n", "e", "o", "n">>, <<"c", "o", "m">>, <<"A", "p", "i">>}
UrlHosts ==
    UNION {{join(labels, ".") : labels \in [1..n -> UrlLabels]} : n \in 0..MaxLabels}

\* what follows the host: nothing, a path, a port, a space and more
UrlTails == {<<>>, <<"/", "m", "c", "p">>, <<":", "8">>, <<" ", "x">>}

\* the pieces of a package name or a command line
LocalTokens ==
    {<<>>, Npx, <<"-", "y">>, McpServer \o <<"-", "p", "g">>,
     <<"@", "s", "/", "s", "e", "r", "v", "e", "r", "-", "x", "@", "1">>,
     <<"p", "g", "-", "m", "c", "p", "@", "1">>, <<"/", "a", ".", "j", "s">>}

\* typed as it is, or with white space around it
Padded(inputs) == inputs \cup {<<" ">> \o input \o <<"\t">> : input \in inputs}

SourceInputs ==
    Padded({scheme \o host \o tail :
                scheme \in {Http, Https}, host \in UrlHosts, tail \in UrlTails})
    \cup
    Padded(UNION {{join(tokens, " ") : tokens \in [1..n -> LocalTokens]} :
                      n \in 0..MaxTokens})

BuildOptionSets ==
    {BuildOptions(Undef, Undef),
     BuildOptions(Str("sse"), Undef),
     BuildOptions(Str("http"), EmptyMap),
     BuildOptions(Undef, Map([h |-> Str("v")])),
     BuildOptions(Str("sse"), Map([h |-> Str("v")]))}

\* a JSON agent without a transform that has a project-level path
E2EAgents == {"cursor"}

InitSource ==
    /\ fs = [p \in Paths |-> Absent]
    /\ seeded = {}
    /\ last = NoCall
    /\ calls = 0
    /\ run = Idle
    /\ InitMerge
    /\ sInput \in SourceInputs
    /\ sParsed = Undef
    /\ sOptions = Undef
    /\ sConfig = Undef
    /\ NoExt

ParseSource ==
    /\ sParsed = Undef
    /\ sParsed' = parseSource(sInput)
    /\ UNCHANGED <<fs, seeded, last, calls, run, mTarget, mSource, mResult,
                   sInput, sOptions, sConfig, extVars>>

BuildServerConfig(options) ==
    /\ sParsed # Undef
    /\ sConfig = Undef
    /\ sOptions' = options
    /\ sConfig' = buildServerConfig(sParsed, options)
    /\ UNCHANGED <<fs, seeded, last, calls, run, mTarget, mSource, mResult,
                   sInput, sParsed, extVars>>

\* the server is installed under its inferred name at project level
InstallParsed(agentType) ==
    /\ sConfig # Undef
    /\ last.op = "none"
    /\ InstallOne(ToStr(sParsed.inferredName), sConfig, agentType,
                  Options(TRUE, TRUE, TRUE))

NextSource ==
    \/ ParseSource
    \/ \E options \in BuildOptionSets : BuildServerConfig(options)
    \/ \E a \in E2EAgents : InstallParsed(a)

SpecSource == InitSource /\ [][NextSource]_vars

----------------------------------------------------------------------------
(* A built config handed to an agent's transformConfig                     *)

\* sources of each kind: remote, package, scoped package, command lines
TransformSources ==
    {Https \o <<"m", "c", "p", ".", "n", "e", "o", "n", ".", "c", "o", "m">>
           \o <<"/", "m", "c", "p">>,
     Http \o <<"n", "e", "o", "n">> \o <<":", "8">>,
     McpServer \o <<"-", "p", "g">>,
     <<"@", "s", "/", "s", "e", "r", "v", "e", "r", "-", "x", "@", "1">>,
     Node \o <<" ">> \o <<"/", "a", ".", "j", "s">>,
     Npx \o <<" ", "-", "y", " ">> \o McpServer \o <<"-", "p", "g">>}

TransformAgents == {"goose"}

InitTransform ==
    /\ fs = [p \in Paths |-> Absent]
    /\ seeded = {}
    /\ last = NoCall
    /\ calls = 0
    /\ run = Idle
    /\ InitMerge
    /\ sInput \in TransformSources
    /\ sParsed = Undef
    /\ sOptions = Undef
    /\ sConfig = Undef
    /\ NoExt

\* agent.transformConfig(serverName, serverConfig, { local })
Transform(agentType, serverName, local) ==
    /\ sConfig # Undef
    /\ tOut = Undef
    /\ tOut' = [agentType |-> agentType, serverName |-> serverName, local |-> local,
                out |-> applyTransform(agents[agentType], serverName, sConfig, local)]
    /\ UNCHANGED <<fs, seeded, last, calls, run, mTarget, mSource, mResult, srcVars,
                   cli, prompts, lock, ignore>>

NextTransform ==
    \/ ParseSource
    \/ \E options \in BuildOptionSets : BuildServerConfig(options)
    \/ \E a \in TransformAgents, n \in ServerNames, local \in BOOLEAN : Transform(a, n, local)

SpecTransform == InitTransform /\ [][NextTransform]_vars

----------------------------------------------------------------------------
(* index.ts: the add command                                               *)

\* Object.keys(agents), in the order of the registry
AgentTypes ==
    <<"claude-code", "claude-desktop", "codex", "cursor", "gemini-cli", "goose",
      "opencode", "vscode", "zed">>

agentAliases == ("github-copilot" :> "vscode")

\* agents[agentType].supportedTransports and agents[agentType].supportsHeaders
supportedTransports(agentType) == {"stdio", "http", "sse"}
supportsHeaders(agentType) == agentType # "goose"

isTransportSupported(agentType, transport) == transport \in supportedTransports(agentType)
supportsProjectConfig(agentType) == agents[agentType].localConfigPath # ""

\* resolveAgentType; "" stands for null
resolveAgentType(input) ==
    LET lower == ToStr(toLowerCase(input))
    IN  IF \E i \in 1..Len(AgentTypes) : AgentTypes[i] = lower THEN lower
        ELSE IF lower \in DOMAIN agentAliases THEN agentAliases[lower]
        ELSE ""

\* parseHeaders: "Key: Value" entries; the rest is reported as invalid
RECURSIVE parseHeaders(_)
parseHeaders(values) ==
    IF values = <<>> THEN [headers |-> NoKeys, invalid |-> <<>>]
    ELSE LET entry == values[Len(values)]
             before == parseHeaders(SubSeq(values, 1, Len(values) - 1))
             separatorIndex == indexOf(entry, ":", 0)
             key == trim(sliceTo(entry, separatorIndex))
             value == trim(sliceFrom(entry, separatorIndex + 1))
         IN  IF separatorIndex <= 0 \/ key = <<>> \/ value = <<>>
             THEN [before EXCEPT !.invalid = Append(@, entry)]
             ELSE [before EXCEPT !.headers = (ToStr(key) :> Str(ToStr(value))) @@ @]

\* the elements of a list, and a routing map that sends `agentTypes` to `scope`
Elems(list) == {list[i] : i \in 1..Len(list)}
RouteAll(agentTypes, scope, routing) == [a \in Elems(agentTypes) |-> scope] @@ routing

\* how main leaves its validation: exit >= 0 is process.exit(exit), exit = -1
\* goes on to installServer.  chosen: the agents picked before validation.
Leave(exit, chosen, viaPrompt) ==
    [exit |-> exit, chosen |-> chosen, viaPrompt |-> viaPrompt,
     targetAgents |-> <<>>, routing |-> NoKeys]
GoOn(chosen, viaPrompt, targetAgents, routing) ==
    [exit |-> -1, chosen |-> chosen, viaPrompt |-> viaPrompt,
     targetAgents |-> targetAgents, routing |-> routing]

\* main, "Determine target agents": the list, the routing found by detection
\* and whether a prompt chose it; cancelled: the prompt was cancelled
resolveTargets(options, env) ==
    LET resolved == [i \in 1..Len(options.agent) |-> resolveAgentType(options.agent[i])]
        available == IF options.global THEN AgentTypes
                     ELSE SelectSeq(AgentTypes, supportsProjectConfig)
        detected == IF options.global THEN env.detected
                    ELSE SelectSeq(env.detected, supportsProjectConfig)
        scope == IF options.global THEN "global" ELSE "local"
        smart == RouteAll(detected, scope, NoKeys)
        picked == SelectSeq(available, LAMBDA a : a \in env.select)
        Targets(exit, cancelled, agentTypes, routing, viaPrompt) ==
            [exit |-> exit, cancelled |-> cancelled, targetAgents |-> agentTypes,
             routing |-> routing, viaPrompt |-> viaPrompt]
    IN  IF Len(options.agent) > 0
        THEN IF \E i \in 1..Len(resolved) : resolved[i] = ""
             THEN Targets(1, FALSE, <<>>, NoKeys, FALSE)
             ELSE Targets(-1, FALSE, resolved, NoKeys, FALSE)
        ELSE IF options.all THEN Targets(-1, FALSE, AgentTypes, NoKeys, FALSE)
        ELSE IF detected = <<>> /\ options.yes
        THEN Targets(-1, FALSE, available, RouteAll(available, scope, smart), FALSE)
        ELSE IF detected # <<>> /\ options.yes
        THEN Targets(-1, FALSE, detected, smart, FALSE)
        ELSE IF env.select = {}
        THEN Targets(0, TRUE, <<>>, NoKeys, FALSE)
        ELSE Targets(-1, FALSE, picked, RouteAll(picked, scope, smart), TRUE)

\* main, "Validate transport compatibility with selected agents"
validateTransport(targetAgents, requiredTransport, options) ==
    LET supported == SelectSeq(targetAgents,
                               LAMBDA a : isTransportSupported(a, requiredTransport))
    IN  IF supported = targetAgents THEN [exit |-> -1, targetAgents |-> targetAgents]
        ELSE IF options.all
        THEN IF supported = <<>> THEN [exit |-> 1, targetAgents |-> <<>>]
             ELSE [exit |-> -1, targetAgents |-> supported]
        ELSE [exit |-> 1, targetAgents |-> <<>>]

\* a validation that leaves out the agents without header support
validateHeadersSkip(targetAgents, hasHeadersForRemote, hasExplicitAgentSelection) ==
    LET supported == SelectSeq(targetAgents, supportsHeaders)
    IN  IF ~hasHeadersForRemote \/ supported = targetAgents
        THEN [exit |-> -1, targetAgents |-> targetAgents]
        ELSE IF supported = <<>> THEN [exit |-> 1, targetAgents |-> <<>>]
        ELSE [exit |-> -1, targetAgents |-> supported]

\* main, the header check that follows
validateHeaders(targetAgents, hasHeadersForRemote, hasExplicitAgentSelection) ==
    LET supported == SelectSeq(targetAgents, supportsHeaders)
    IN  IF ~hasHeadersForRemote \/ supported = targetAgents
        THEN [exit |-> -1, targetAgents |-> targetAgents]
        ELSE IF hasExplicitAgentSelection THEN [exit |-> 1, targetAgents |-> <<>>]
        ELSE IF supported = <<>> THEN [exit |-> 1, targetAgents |-> <<>>]
        ELSE [exit |-> -1, targetAgents |-> supported]

\* main, "Determine installation scope": cancelled when the scope prompt is
\* cancelled
resolveScope(targetAgents, agentRouting, options, env) ==
    LET hasSmartRouting == DOMAIN agentRouting # {}
        selectedWithLocal == SelectSeq(targetAgents, supportsProjectConfig)
        globalOnlySelected == SelectSeq(targetAgents, LAMBDA a : ~supportsProjectConfig(a))
        installLocally == IF options.yes THEN TRUE ELSE env.scope = "project"
    IN  IF options.global
        THEN [cancelled |-> FALSE, routing |-> RouteAll(targetAgents, "global", agentRouting)]
        ELSE IF hasSmartRouting THEN [cancelled |-> FALSE, routing |-> agentRouting]
        ELSE IF selectedWithLocal = <<>>
        THEN [cancelled |-> FALSE,
              routing |-> RouteAll(globalOnlySelected, "global", agentRouting)]
        ELSE IF ~options.yes /\ env.scope = "cancel"
        THEN [cancelled |-> TRUE, routing |-> agentRouting]
        ELSE [cancelled |-> FALSE,
              routing |-> RouteAll(selectedWithLocal,
                                   IF installLocally THEN "local" ELSE "global",
                                   RouteAll(globalOnlySelected, "global", agentRouting))]

\* main, from the parsed source to the confirmation prompt, stage by stage:
\* each stage is handed what the stages before it found
mainConfirm(options, env, targets, byHeaders, scoped) ==
    IF scoped.cancelled THEN Leave(0, targets.targetAgents, targets.viaPrompt)
    ELSE IF ~options.yes /\ env.confirm # "yes"
    THEN Leave(0, targets.targetAgents, targets.viaPrompt)
    ELSE GoOn(targets.targetAgents, targets.viaPrompt, byHeaders.targetAgents,
              scoped.routing)

mainScope(options, env, targets, byHeaders) ==
    IF byHeaders.exit >= 0
    THEN Leave(byHeaders.exit, targets.targetAgents, targets.viaPrompt)
    ELSE mainConfirm(options, env, targets, byHeaders,
                     resolveScope(byHeaders.targetAgents, targets.routing, options, env))

mainHeaders(isRemote, options, env, hasHeaderValues, targets, byTransport) ==
    IF byTransport.exit >= 0
    THEN Leave(byTransport.exit, targets.targetAgents, targets.viaPrompt)
    ELSE mainScope(options, env, targets,
                   validateHeaders(byTransport.targetAgents, isRemote /\ hasHeaderValues,
                                   (Len(options.agent) > 0 \/ options.all)
                                       \/ targets.viaPrompt))

mainTransport(isRemote, options, env, hasHeaderValues, targets) ==
    IF targets.exit >= 0 THEN Leave(targets.exit, <<>>, FALSE)
    ELSE mainHeaders(isRemote, options, env, hasHeaderValues, targets,
                     validateTransport(targets.targetAgents,
                                       IF isRemote
                                       THEN IF options.transport = "" THEN "http"
                                            ELSE options.transport
                                       ELSE "stdio",
                                       options))

mainTargets(isRemote, options, env, headerResult) ==
    IF headerResult.invalid # <<>> THEN Leave(1, <<>>, FALSE)
    ELSE IF options.transport \notin {"", "http", "sse"} THEN Leave(1, <<>>, FALSE)
    ELSE mainTransport(isRemote, options, env, DOMAIN headerResult.headers # {},
                       resolveTargets(options, env))

main(parsed, options, env) ==
    mainTargets(parsed.type = "remote", options, env, parseHeaders(options.header))

\* the serverConfig main builds
mainBuildOptions(parsed, options) ==
    LET headers == parseHeaders(options.header).headers
    IN  BuildOptions(IF options.transport = "" THEN Undef ELSE Str(options.transport),
                     IF parsed.type = "remote" /\ DOMAIN headers # {}
                     THEN Map(headers) ELSE Undef)

\* command lines: the target, --agent, --all, --global, --yes, --transport,
\* --header
CliTargets ==
    {Https \o <<"m", "c", "p", ".", "n", "e", "o", "n", ".", "c", "o", "m">>,
     McpServer \o <<"-", "p", "g">>}
AgentFlags ==
    {<<>>,
     <<<<"C", "u", "r", "s", "o", "r">>>>,
     <<<<"g", "o", "o", "s", "e">>, <<"c", "u", "r", "s", "o", "r">>>>,
     <<<<"f", "o", "o">>>>,
     <<<<"c", "u", "r", "s", "o", "r">>, <<"f", "o", "o">>>>}
HeaderFlags == {<<>>, <<<<"K", ":", " ", "V">>>>, <<<<"b", "a", "d">>>>}
TransportFlags == {"", "sse", "ftp"}
CliOptions ==
    [agent : AgentFlags, all : BOOLEAN, global : BOOLEAN, yes : BOOLEAN,
     transport : TransportFlags, header : HeaderFlags]

\* what the run meets: the agents detection finds, and the answers to the
\* prompts (select = {} and "cancel" stand for a cancelled prompt)
CliEnvs ==
    [detected : {<<>>, <<"cursor", "goose">>},
     select : {{}, {"goose", "cursor"}},
     scope : {"cancel", "project", "global"},
     confirm : {"no", "yes"}]

\* every config path of the registry
CliPaths ==
    {agents[a].configPath : a \in Elems(AgentTypes)} \cup
    {JoinCwd(agents[a].localConfigPath) : a \in {x \in Elems(AgentTypes) :
                                                   agents[x].localConfigPath # ""}}

InitCli ==
    /\ fs = [p \in CliPaths |-> Absent]
    /\ seeded = {}
    /\ last = NoCall
    /\ calls = 0
    /\ run = Idle
    /\ InitMerge
    /\ NoSource
    /\ NoExt

\* the state main leaves behind when it reaches installServer or exits
AddOutcome(target, options, parsed, buildOptions, out) ==
    /\ sInput' = target
    /\ sParsed' = parsed
    /\ sOptions' = IF out.exit = -1 THEN buildOptions ELSE Undef
    /\ sConfig' = IF out.exit = -1 THEN buildServerConfig(parsed, buildOptions) ELSE Undef
    /\ cli' = [options |-> options, pc |-> IF out.exit = -1 THEN "install" ELSE "exit",
               exit |-> out.exit, chosen |-> out.chosen, viaPrompt |-> out.viaPrompt,
               targetAgents |-> out.targetAgents, routing |-> out.routing]

AddParsed(target, options, env, parsed) ==
    AddOutcome(target, options, parsed, mainBuildOptions(parsed, options),
               main(parsed, options, env))

\* main up to the call of installServer, or to the process.exit before it
AddCommand(target, options, env) ==
    /\ cli = Undef
    /\ AddParsed(target, options, env, parseSource(target))
    /\ UNCHANGED <<fs, seeded, last, calls, run, mTarget, mSource, mResult,
                   tOut, prompts, lock, ignore>>

\* installServer(serverName, serverConfig, targetAgents, { routing: agentRouting }),
\* in a working directory that is there
CliInstall ==
    /\ cli # Undef
    /\ cli.pc = "install"
    /\ StartMany(ToStr(sParsed.inferredName), sConfig, cli.targetAgents,
                 [given |-> TRUE, map |-> cli.routing], TRUE)

\* the results are shown and the process ends
CliDone ==
    /\ cli # Undef
    /\ cli.pc = "install"
    /\ last.op = "installServer"
    /\ cli' = [cli EXCEPT !.pc = "exit", !.exit = IF last.threw THEN 1 ELSE 0]
    /\ UNCHANGED <<fs, seeded, last, calls, run, mTarget, mSource, mResult, srcVars,
                   tOut, prompts, lock, ignore>>

NextCli ==
    \/ \E target \in CliTargets, options \in CliOptions, env \in CliEnvs :
          AddCommand(target, options, env)
    \/ CliInstall
    \/ StepMany
    \/ ReturnMany
    \/ CliDone

SpecCli == InitCli /\ [][NextCli]_vars

----------------------------------------------------------------------------
(* find.ts: collectPromptValues                                            *)

MaxFields == 2
MaxAsks == 4

\* p.isCancel(raw): the cancel symbol of the prompt library
\* an answer of ask(field): the cancel symbol of the prompt library or a string
CancelSymbol == [symbol |-> TRUE, text |-> <<>>]
Text(chars) == [symbol |-> FALSE, text |-> chars]
isCancel(raw) == raw.symbol

FieldKeys == {"project_id", "Authorization"}
PromptFields == [key : FieldKeys, isRequired : BOOLEAN]
FieldLists == UNION {[1..n -> PromptFields] : n \in 0..MaxFields}
Answers == {CancelSymbol, Text(<<>>), Text(<<" ">>), Text(<<"v">>), Text(<<" ", "w", " ">>)}

\* const values = {}; for (const field of fields) {...}: at the first field,
\* or returned at once when there is none
collectStart(fields) ==
    [fields |-> fields, at |-> 1, values |-> [k \in {} |-> <<>>],
     cancelled |-> FALSE, returned |-> fields = <<>>, asked |-> <<>>]

\* the loop leaves field `at`: the next field, or return {values, cancelled: false}
collectBreak(st, values, asked) ==
    [st EXCEPT !.values = values, !.asked = asked, !.at = st.at + 1,
               !.returned = st.at = Len(st.fields)]

\* every empty answer leaves the loop, required or not
collectAnswerNoRetry(st, raw) ==
    LET field == st.fields[st.at]
        asked == Append(st.asked, [field |-> st.at, raw |-> raw])
        value == trim(raw.text)
    IN  IF isCancel(raw)
        THEN [st EXCEPT !.asked = asked, !.cancelled = TRUE, !.returned = TRUE]
        ELSE IF Len(value) = 0
        THEN collectBreak(st, st.values, asked)
        ELSE collectBreak(st, (field.key :> value) @@ st.values, asked)

\* one pass of while (true) with raw = await ask(field)
collectAnswer(st, raw) ==
    LET field == st.fields[st.at]
        asked == Append(st.asked, [field |-> st.at, raw |-> raw])
        value == trim(raw.text)
    IN  IF isCancel(raw)
        THEN [st EXCEPT !.asked = asked, !.cancelled = TRUE, !.returned = TRUE]
        ELSE IF Len(value) = 0
        THEN IF field.isRequired
             THEN [st EXCEPT !.asked = asked]
             ELSE collectBreak(st, st.values, asked)
        ELSE collectBreak(st, (field.key :> value) @@ st.values, asked)

CollectPromptValues(fields) ==
    /\ prompts = Undef
    /\ prompts' = collectStart(fields)
    /\ UNCHANGED <<fs, seeded, last, calls, run, mTarget, mSource, mResult, srcVars,
                   tOut, cli, lock, ignore>>

Ask(raw) ==
    /\ prompts # Undef
    /\ ~prompts.returned
    /\ Len(prompts.asked) < MaxAsks
    /\ prompts' = collectAnswer(prompts, raw)
    /\ UNCHANGED <<fs, seeded, last, calls, run, mTarget, mSource, mResult, srcVars,
                   tOut, cli, lock, ignore>>

NextPrompts ==
    \/ \E fields \in FieldLists : CollectPromptValues(fields)
    \/ \E raw \in Answers : Ask(raw)

SpecPrompts == Init /\ [][NextPrompts]_vars

----------------------------------------------------------------------------
(* mcp-lock.ts: the lock file of the last selected agents                  *)

CURRENT_VERSION == 1

\* a number as it is written in JSON text: an integer, or a literal beyond
\* the range of a double such as 1e999
NumLit(n) == [t |-> "numlit", n |-> n, overflow |-> FALSE]
HugeLit == [t |-> "numlit", n |-> 0, overflow |-> TRUE]
Infinity == [t |-> "inf"]

\* JSON.parse(content) of well-formed text
RECURSIVE JSONparse(_)
JSONparse(text) ==
    CASE text.t = "numlit" -> IF text.overflow THEN Infinity ELSE Num(text.n)
      [] text.t = "arr" -> Arr([i \in DOMAIN text.a |-> JSONparse(text.a[i])])
      [] text.t = "map" -> Map([k \in DOMAIN text.m |-> JSONparse(text.m[k])])
      [] OTHER -> text

\* JSON.stringify(value, null, 2): a non-finite number is written as null and
\* a property holding undefined is left out
RECURSIVE JSONstringify(_)
JSONstringify(value) ==
    CASE value.t = "num" -> NumLit(value.n)
      [] value.t = "inf" -> Null
      [] value.t = "arr" ->
             Arr([i \in DOMAIN value.a |->
                     IF value.a[i] = Undef THEN Null ELSE JSONstringify(value.a[i])])
      [] value.t = "map" ->
             Map([k \in {x \in DOMAIN value.m : value.m[x] # Undef} |->
                     JSONstringify(value.m[k])])
      [] OTHER -> value

LockAbsent == [kind |-> "absent", wf |-> FALSE, text |-> Undef]
LockGarbage == [kind |-> "file", wf |-> FALSE, text |-> Undef]
LockText(text) == [kind |-> "file", wf |-> TRUE, text |-> text]

createEmptyLockFile == Map([k \in {"version"} |-> Num(CURRENT_VERSION)])

\* parsed.version, parsed.lastSelectedAgents: undefined on anything that has
\* no such property
Property(value, key) ==
    IF value.t = "map" /\ key \in DOMAIN value.m THEN value.m[key] ELSE Undef

readMcpLock(file) ==
    IF file.kind = "absent" \/ ~file.wf
    THEN createEmptyLockFile
    ELSE LET parsed == JSONparse(file.text)
         IN  IF parsed.t = "null"
             THEN createEmptyLockFile
             ELSE LET version == Property(parsed, "version")
                  IN  IF version.t \notin {"num", "inf"}
                      THEN createEmptyLockFile
                      ELSE IF version.t = "num" /\ version.n < CURRENT_VERSION
                      THEN createEmptyLockFile
                      ELSE parsed

writeMcpLock(value) == LockText(JSONstringify(value))

getLastSelectedAgents(file) == Property(readMcpLock(file), "lastSelectedAgents")

\* lock.lastSelectedAgents = agents (here: selected) on what readMcpLock returned
saveSelectedAgents(file, selected) ==
    LET read == readMcpLock(file)
    IN  IF read.t = "map"
        THEN writeMcpLock(Map(("lastSelectedAgents" :> selected) @@ read.m))
        ELSE writeMcpLock(read)

Selections ==
    {Arr(<<>>), Arr(<<Str("cursor")>>), Arr(<<Str("cursor"), Str("vscode")>>)}

VersionTexts == {Undef, NumLit(0), NumLit(1), NumLit(2), HugeLit, Str("1"), Null}
AgentTexts == {Undef, Arr(<<Str("zed")>>)}

LockTexts ==
    {Null, Arr(<<>>), NumLit(2)} \cup
    {Map([k \in ({"version"} \cap (IF v = Undef THEN {} ELSE {"version"}))
                  \cup ({"lastSelectedAgents"} \cap
                            (IF a = Undef THEN {} ELSE {"lastSelectedAgents"})) |->
             IF k = "version" THEN v ELSE a]) : v \in VersionTexts, a \in AgentTexts}

LockFiles == {LockAbsent, LockGarbage} \cup {LockText(text) : text \in LockTexts}

LockFrame ==
    UNCHANGED <<fs, seeded, last, calls, run, mTarget, mSource, mResult, srcVars,
                tOut, cli, prompts, ignore>>

\* what ~/.agents/.mcp-lock.json holds before the program runs
LockBefore(file) ==
    /\ lock = Undef
    /\ lock' = [before |-> file, file |-> file, op |-> "none", saved |-> Undef,
                result |-> Undef]
    /\ LockFrame

SaveSelectedAgents(selected) ==
    /\ lock # Undef
    /\ lock' = [lock EXCEPT !.file = saveSelectedAgents(lock.file, selected),
                            !.op = "saveSelectedAgents", !.saved = selected,
                            !.result = Undef]
    /\ LockFrame

GetLastSelectedAgents ==
    /\ lock # Undef
    /\ lock' = [lock EXCEPT !.op = "getLastSelectedAgents",
                            !.result = getLastSelectedAgents(lock.file)]
    /\ LockFrame

NextLock ==
    \/ \E file \in LockFiles : LockBefore(file)
    \/ \E selected \in Selections : SaveSelectedAgents(selected)
    \/ GetLastSelectedAgents

SpecLock == Init /\ [][NextLock]_vars

----------------------------------------------------------------------------
(* installer.ts: updateGitignoreWithPaths, on a system whose path.sep is    *)
(* "/" and in the directory /w                                             *)

MaxPaths == 2
MaxUpdates == 2

Cwd == <<"/", "w">>
DotGitignore == <<".", "g", "i", "t", "i", "g", "n", "o", "r", "e">>

\* path.isAbsolute(p)
isAbsolute(path) == path # <<>> /\ Head(path) = "/"

\* path.relative(cwd, filePath) for a normalized absolute filePath and the
\* one-segment cwd: "" for cwd itself, the rest for a path below it, else
\* one step up followed by the path from the root
relative(cwd, filePath) ==
    IF filePath = cwd THEN <<>>
    ELSE IF startsWith(filePath, cwd \o <<"/">>)
    THEN sliceFrom(filePath, Len(cwd) + 1)
    ELSE <<".", ".", "/">> \o sliceFrom(filePath, 1)

\* content.split(/\r?\n/)
splitLines(content) ==
    LET pieces == split(content, "\n")
    IN  [i \in 1..Len(pieces) |->
            IF i < Len(pieces) /\ endsWith(pieces[i], <<"\r">>)
            THEN sliceTo(pieces[i], Len(pieces[i]) - 1)
            ELSE pieces[i]]

\* new Set(existingContent.split(/\r?\n/).map(trim).filter(non-empty))
existingEntriesOf(content) ==
    LET lines == splitLines(content)
    IN  {trim(lines[i]) : i \in 1..Len(lines)} \ {<<>>}

\* the path as it would be entered, or <<>> when the loop skips it
cleanPathOf(cwd, filePath) ==
    LET relativePath == IF isAbsolute(filePath) THEN relative(cwd, filePath) ELSE filePath
    IN  IF relativePath = <<>> \/ startsWith(relativePath, <<".", ".">>)
           \/ isAbsolute(relativePath)
        THEN <<>>
        ELSE IF startsWith(relativePath, <<".", "/">>)     \* split(sep).join("/") is the
             THEN sliceFrom(relativePath, 2)                \* identity where sep is "/"
             ELSE relativePath

\* for (const filePath of paths) {...}: the entries to add, in order
RECURSIVE gitignoreLoop(_, _, _, _)
gitignoreLoop(cwd, paths, existingEntries, entriesToAdd) ==
    IF paths = <<>> THEN entriesToAdd
    ELSE LET cleanPath == cleanPathOf(cwd, Head(paths))
         IN  IF cleanPath = <<>> \/ cleanPath = DotGitignore
                \/ cleanPath \in existingEntries
             THEN gitignoreLoop(cwd, Tail(paths), existingEntries, entriesToAdd)
             ELSE gitignoreLoop(cwd, Tail(paths), existingEntries \cup {cleanPath},
                                Append(entriesToAdd, cleanPath))

\* updateGitignoreWithPaths(paths, {cwd}) on a .gitignore that is absent
\* (exists = FALSE) or holds `content`
updateGitignoreWithPaths(file, paths, cwd) ==
    LET existingContent == IF file.exists THEN file.content ELSE <<>>
        entriesToAdd == gitignoreLoop(cwd, paths, existingEntriesOf(existingContent), <<>>)
        ended == IF Len(existingContent) > 0 /\ ~endsWith(existingContent, <<"\n">>)
                 THEN existingContent \o <<"\n">> ELSE existingContent
    IN  IF Len(entriesToAdd) > 0
        THEN [file |-> [exists |-> TRUE,
                        content |-> ended \o join(entriesToAdd, "\n") \o <<"\n">>],
              wrote |-> TRUE, added |-> entriesToAdd]
        ELSE [file |-> file, wrote |-> FALSE, added |-> entriesToAdd]

GitignoreFiles ==
    {[exists |-> FALSE, content |-> <<>>],
     [exists |-> TRUE, content |-> <<>>],
     [exists |-> TRUE, content |-> <<"a", "\n">>],
     [exists |-> TRUE, content |-> <<"b">>],
     [exists |-> TRUE, content |-> <<" ", "a", " ", "\n", "\n", "b", "\n">>]}

GitignorePaths ==
    {<<"a">>, <<".", "/", "a">>, <<"/", "w", "/", "a">>, <<"b">>,
     DotGitignore, <<".", ".", "/", "x">>, <<".", "/", ".", ".", "/", "x">>,
     <<"/", "w">>, <<"/", "x">>, <<" ", "a">>}

GitignorePathLists(longest) == UNION {[1..n -> GitignorePaths] : n \in 0..longest}

GitignoreFrame ==
    UNCHANGED <<fs, seeded, last, calls, run, mTarget, mSource, mResult, srcVars,
                tOut, cli, prompts, lock>>

\* what .gitignore holds before the program runs
GitignoreBefore(file) ==
    /\ ignore = Undef
    /\ ignore' = [file |-> file, before |-> file, op |-> "none", paths |-> <<>>,
                  previous |-> <<>>, added |-> <<>>, wrote |-> FALSE, updates |-> 0]
    /\ GitignoreFrame

UpdateGitignoreWithPaths(paths) ==
    /\ ignore # Undef
    /\ ignore.updates < MaxUpdates
    /\ LET out == updateGitignoreWithPaths(ignore.file, paths, Cwd)
       IN  ignore' = [file |-> out.file, before |-> ignore.file, op |-> "update",
                      paths |-> paths,
                      previous |-> IF ignore.op = "update" THEN <<ignore.paths>> ELSE <<>>,
                      added |-> out.added, wrote |-> out.wrote,
                      updates |-> ignore.updates + 1]
    /\ GitignoreFrame

NextGitignore ==
    \/ \E file \in GitignoreFiles : GitignoreBefore(file)
    \/ \E paths \in GitignorePathLists(MaxPaths) : UpdateGitignoreWithPaths(paths)

SpecGitignore == Init /\ [][NextGitignore]_vars

----------------------------------------------------------------------------
(* deepMerge as a function of its two arguments                            *)

MaxDepth == 1

MergeKeys == {"a", "c"}
MergeLeaves == {Num(1), Arr(<<Num(1), Num(2)>>)}

RECURSIVE MergeTrees(_)
MergeTrees(d) ==
    IF d = 0 THEN MergeLeaves
    ELSE MergeTrees(d - 1) \cup
         UNION {{Map(f) : f \in [S -> MergeTrees(d - 1)]} : S \in SUBSET MergeKeys}

\* the documents whose values nest at most d maps deep
MergeDocs(d) ==
    UNION {{Map(f) : f \in [S -> MergeTrees(d)]} : S \in SUBSET MergeKeys}

InitDeepMerge ==
    /\ fs = [p \in Paths |-> Absent]
    /\ seeded = {}
    /\ last = NoCall
    /\ calls = 0
    /\ run = Idle
    /\ mTarget \in MergeDocs(MaxDepth)
    /\ mSource \in MergeDocs(MaxDepth)
    /\ mResult = Undef
    /\ NoSource
    /\ NoExt

CallDeepMerge ==
    /\ mResult = Undef
    /\ mResult' = deepMerge(mTarget, mSource)
    /\ UNCHANGED <<fs, seeded, last, calls, run, mTarget, mSource, srcVars, extVars>>

SpecDeepMerge == InitDeepMerge /\ [][CallDeepMerge]_vars

----------------------------------------------------------------------------
(* Properties of installServerForAgent                                     *)

\* the document a reader of the file's format recovers from it
ParsedDoc(file) == IF file.kind = "file" /\ ~file.empty THEN file.root ELSE Undef

\* the keys of a document (none when it is not a map)
KeysOf(v) == IF v.t = "map" THEN DOMAIN v.m ELSE {}

\* the last call was installServerForAgent and it returned success
Installed ==
    /\ last.op = "installServerForAgent"
    /\ ~last.threw
    /\ last.result.success

\* the config key of the last call, the servers map found there before the
\* call and the one found there now
LastKey == getConfigKey(agents[last.agentType], last.options)
ServersBefore == getNestedValue(ParsedDoc(last.pre), LastKey)
ServersNow == getNestedValue(ParsedDoc(fs[last.path]), LastKey)

\* C1: a successful install of server N keeps every top-level key of the
\* existing document other than the config key, and every entry under the
\* config key whose name is not N, with the value it had, and leaves an entry
\* named N under the config key; in each format, whatever the file held.
C1_NonDestructiveMerge ==
    Installed =>
        LET before == ParsedDoc(last.pre)
            after == ParsedDoc(fs[last.path])
        IN  /\ \A k \in KeysOf(before) \ {LastKey[1]} :
                   k \in KeysOf(after) /\ after.m[k] = before.m[k]
            /\ \A n \in KeysOf(ServersBefore) \ {last.serverName} :
                   n \in KeysOf(ServersNow) /\ ServersNow.m[n] = ServersBefore.m[n]
            /\ last.serverName \in KeysOf(ServersNow)

\* an install of server2 into a file that held fooBar and server1
C1_Witness ==
    /\ Installed
    /\ last.serverName = "server2"
    /\ "fooBar" \in KeysOf(ParsedDoc(last.pre))
    /\ "server1" \in KeysOf(ServersBefore)
    /\ KeysOf(ServersNow) = {"server1", "server2"}
    /\ "fooBar" \in KeysOf(ParsedDoc(fs[last.path]))

\* C2: making the call that was just made a second time, on the same path,
\* leaves the parsed document the first call left.
C2_Idempotent ==
    (last.op = "installServerForAgent" /\ ~last.threw) =>
        LET again == installServerForAgent(fs, last.serverName, last.serverConfig,
                                           last.agentType, last.options)
        IN  /\ ~again.threw
            /\ again.value.success = last.result.success
            /\ ParsedDoc(again.fs[last.path]) = ParsedDoc(fs[last.path])

\* an install that changed an existing document, with arguments in an array
C2_Witness ==
    /\ Installed
    /\ last.serverConfig = LocalP
    /\ last.pre.kind = "file"
    /\ ParsedDoc(last.pre) # ParsedDoc(fs[last.path])
    /\ last.serverName \in KeysOf(ServersBefore)

\* the url an agent's entry holds (Goose files it under uri)
UrlOf(entry) ==
    IF entry.t # "map" THEN Undef
    ELSE IF "url" \in DOMAIN entry.m THEN entry.m["url"]
    ELSE IF "uri" \in DOMAIN entry.m THEN entry.m["uri"]
    ELSE Undef

\* C3: when an entry N with a URL is there and N is installed with URL B,
\* there is one entry named N afterwards and its URL is B.
C3_OverwriteByName ==
    (/\ Installed
     /\ "url" \in DOMAIN last.serverConfig.m
     /\ last.serverName \in KeysOf(ServersBefore)
     /\ UrlOf(ServersBefore.m[last.serverName]) # Undef)
    => /\ Cardinality({n \in KeysOf(ServersNow) : n = last.serverName}) = 1
       /\ UrlOf(ServersNow.m[last.serverName]) = last.serverConfig.m["url"]

\* server1 was there with URL A and is installed with URL B
C3_Witness ==
    /\ Installed
    /\ last.serverConfig = RemoteB
    /\ last.serverName \in KeysOf(ServersBefore)
    /\ UrlOf(ServersBefore.m[last.serverName]) = RemoteA.m["url"]
    /\ UrlOf(ServersNow.m[last.serverName]) = RemoteB.m["url"]

\* an entry of remote shape: a url, perhaps type and headers, nothing else
RemoteShape(entry) ==
    /\ entry.t = "map"
    /\ "url" \in DOMAIN entry.m
    /\ DOMAIN entry.m \subseteq {"url", "type", "headers"}

\* an entry of local shape: command and args, perhaps env, nothing else
LocalShape(entry) ==
    /\ entry.t = "map"
    /\ {"command", "args"} \subseteq DOMAIN entry.m
    /\ DOMAIN entry.m \subseteq {"command", "args", "env"}

JsonAgents == {a \in TestAgents : agents[a].format = "json"}

\* C4: in the file of a JSON agent that was absent at the start and that
\* only installs have written, every entry under the config key has the remote
\* shape (url, without command and args) or the local shape (command and
\* args, without url).
C4_EntryShapes ==
    \A a \in JsonAgents :
        \A path \in {agents[a].configPath, JoinCwd(agents[a].localConfigPath)} \cap Paths :
            (path \notin seeded /\ fs[path].kind = "file") =>
                LET servers == getNestedValue(ParsedDoc(fs[path]), agents[a].configKey)
                IN  \A n \in KeysOf(servers) :
                        RemoteShape(servers.m[n]) \/ LocalShape(servers.m[n])

\* the last call was an install for a JSON agent whose file held a comment
\* outside the servers key
JsonInstallOverComment ==
    /\ last.op = "installServerForAgent"
    /\ ~last.threw
    /\ agents[last.agentType].format = "json"
    /\ last.pre.kind = "file"
    /\ "outside" \in last.pre.cmts

\* every value the key path passes through above its last segment is an
\* object, or is missing
RECURSIVE PathThroughObjects(_, _)
PathThroughObjects(v, keys) ==
    IF v.t = "undef" THEN TRUE
    ELSE IF v.t # "map" THEN FALSE
    ELSE IF Len(keys) <= 1 THEN TRUE
    ELSE PathThroughObjects(Prop(v, Head(keys)), Tail(keys))

\* C5, as stated: a comment outside the servers key of an existing JSON
\* config file is still in the file after an install into it.
C5_CommentAlwaysPreserved ==
    JsonInstallOverComment =>
        /\ last.result.success
        /\ "outside" \in fs[last.path].cmts

\* C5, amended: the comment is still in the file after the install when the
\* document's top-level value, and every value the config key passes through
\* above its last segment, is an object or is missing.
C5_CommentPreserved ==
    (JsonInstallOverComment /\ PathThroughObjects(ParsedDoc(last.pre), LastKey)) =>
        /\ last.result.success
        /\ "outside" \in fs[last.path].cmts

\* an install into a commented JSON document that held other servers
C5_Witness ==
    /\ JsonInstallOverComment
    /\ last.result.success
    /\ "server1" \in KeysOf(ServersBefore)
    /\ last.serverName = "server2"
    /\ "server2" \in KeysOf(ServersNow)
    /\ "outside" \in fs[last.path].cmts

\* C6: installServerForAgent hands back a result, success or failure with a
\* message, and never an exception, whatever its arguments.
C6_NeverThrows ==
    last.op = "installServerForAgent" =>
        /\ ~last.threw
        /\ last.result.success \/ last.result.error # ""

\* C8: an install over a file whose content is malformed for its format
\* reports failure with a message and leaves the file as it was.
C8_MalformedReported ==
    (last.op = "installServerForAgent" /\ last.pre.kind = "file" /\ ~last.pre.wf) =>
        /\ ~last.threw
        /\ ~last.result.success
        /\ last.result.error # ""
        /\ fs[last.path] = last.pre

\* C9: isServerInstalled never throws, and answers true exactly when the
\* file is there and the value at the agent's config key is a map with the
\* server name as a direct child.
C9_QueryTotal ==
    last.op = "isServerInstalled" =>
        /\ ~last.threw
        /\ last.installed <=>
               LET servers == getNestedValue(ParsedDoc(last.pre),
                                             agents[last.agentType].configKey)
               IN  servers.t = "map" /\ last.serverName \in DOMAIN servers.m

\* C12: installServerForAgent writes to join(cwd, agent.localConfigPath)
\* exactly when the scope is local and the agent has a project-level path,
\* and to the agent's global path in every other case; the path of the
\* result is the path written.
C12_ConfigPath ==
    (last.op = "installServerForAgent" /\ ~last.threw) =>
        LET agent == agents[last.agentType]
            expected == IF last.options.local /\ agent.localConfigPath # ""
                        THEN JoinCwd(agent.localConfigPath)
                        ELSE agent.configPath
        IN  /\ last.result.path = expected
            /\ last.result.success =>
                   /\ fs[expected].kind = "file"
                   /\ last.serverName \in
                          KeysOf(getNestedValue(ParsedDoc(fs[expected]), LastKey))

\* a project-level install that created the file under the working
\* directory and left the agent's global file absent
C12_Witness ==
    /\ Installed
    /\ last.options.local
    /\ agents[last.agentType].localConfigPath # ""
    /\ last.pre.kind = "absent"
    /\ last.result.path = JoinCwd(agents[last.agentType].localConfigPath)
    /\ fs[last.result.path].kind = "file"
    /\ fs[agents[last.agentType].configPath].kind = "absent"

\* C13: the entry is stored under the agent's localConfigKey when the scope
\* is local and the agent has one, under its configKey otherwise; the patch is
\* built under the key the write addresses, so a file the install creates has
\* that key and no other.
C13_ConfigKey ==
    Installed =>
        LET agent == agents[last.agentType]
            expected == IF last.options.local /\ agent.localConfigKey # <<>>
                        THEN agent.localConfigKey
                        ELSE agent.configKey
            doc == ParsedDoc(fs[last.path])
        IN  /\ last.serverName \in KeysOf(getNestedValue(doc, expected))
            /\ last.pre.kind = "absent" => KeysOf(doc) = {expected[1]}

\* a project-level install for the agent whose local key differs
C13_Witness ==
    /\ Installed
    /\ last.agentType = "github-copilot-cli"
    /\ last.options.local
    /\ last.pre.kind = "absent"
    /\ KeysOf(ParsedDoc(fs[last.path])) = {"servers"}
    /\ last.serverName \in KeysOf(getNestedValue(ParsedDoc(fs[last.path]), <<"servers">>))

----------------------------------------------------------------------------
(* Properties of installServer                                             *)

\* C7: installServer returns a map that holds a result for every agent of
\* the list, and the file of every agent whose result says success holds the
\* server, whichever agents failed.
C7_FailureIsolation ==
    last.op = "installServer" =>
        /\ ~last.threw
        /\ \A i \in 1..Len(last.agentTypes) :
               /\ last.agentTypes[i] \in DOMAIN last.results
               /\ LET agentType == last.agentTypes[i]
                      result == last.results[agentType]
                  IN  result.success =>
                          last.serverName \in
                              KeysOf(getNestedValue(ParsedDoc(fs[result.path]),
                                                    agents[agentType].configKey))

\* the routing map of the returned installServer call sends the agent to
\* project level
RoutedLocal(agentType) ==
    /\ last.routing.given
    /\ agentType \in DOMAIN last.routing.map
    /\ last.routing.map[agentType] = "local"

\* the path of an agent at a scope: the project-level path if the scope is
\* local and the agent has one, the global path otherwise
PathAtScope(agentType, local) ==
    IF local /\ agents[agentType].localConfigPath # ""
    THEN JoinCwd(agents[agentType].localConfigPath)
    ELSE agents[agentType].configPath

\* C11: every agent of an installServer call is installed at local scope
\* exactly when the routing map sends it to "local", and at global scope
\* when there is no map, the map is empty or it has no entry for the agent:
\* its result carries the path of that scope and, on success, the file there
\* holds the server.
C11_ScopeRouting ==
    last.op = "installServer" =>
        \A agentType \in DOMAIN last.results :
            LET result == last.results[agentType]
            IN  /\ result.path = PathAtScope(agentType, RoutedLocal(agentType))
                /\ result.success =>
                       last.serverName \in
                           KeysOf(getNestedValue(ParsedDoc(fs[result.path]),
                                                 agents[agentType].configKey))

\* one call that put one agent at project level and another at global level
C11_Witness ==
    /\ last.op = "installServer"
    /\ ~last.threw
    /\ \E a, b \in DOMAIN last.results :
           /\ agents[a].localConfigPath # "" /\ agents[b].localConfigPath # ""
           /\ last.results[a].success /\ last.results[b].success
           /\ last.results[a].path = JoinCwd(agents[a].localConfigPath)
           /\ last.results[b].path = agents[b].configPath
           /\ last.fs0[last.results[a].path] # fs[last.results[a].path]
           /\ last.fs0[last.results[b].path] # fs[last.results[b].path]

----------------------------------------------------------------------------
(* Properties of deepMerge                                                 *)

\* the merge rule: a key of the patch whose value is a map merges into an
\* existing map and replaces anything else, any other value of the patch
\* replaces what is there, and keys found only in the existing document stay
RECURSIVE RuleMerge(_, _)
RuleMerge(existing, patch) ==
    Map([k \in DOMAIN existing.m \cup DOMAIN patch.m |->
            IF k \notin DOMAIN patch.m THEN existing.m[k]
            ELSE IF k \in DOMAIN existing.m /\ existing.m[k].t = "map" /\ patch.m[k].t = "map"
                 THEN RuleMerge(existing.m[k], patch.m[k])
                 ELSE patch.m[k]])

\* C10: deepMerge(existing, patch) is the document the merge rule gives:
\* maps merge recursively, arrays and primitives of the patch replace, a map
\* of the patch replaces an existing value that is not a map, and keys only
\* in the existing document are kept.
C10_DeepMergeRule ==
    mResult # Undef => mResult = RuleMerge(mTarget, mSource)

----------------------------------------------------------------------------
(* Properties of parseSource and buildServerConfig                         *)

\* the source has been classified / the config has been built
Parsed == sParsed # Undef
Built == sConfig # Undef

\* the entry npx is to run for the parsed package
NpxEntry == Map([command |-> Str("npx"),
                 args |-> Arr(<<Str("-y"), Str(ToStr(sParsed.value))>>)])

\* C14: for an input classified as a package the built config is
\* { command: "npx", args: ["-y", value] } with the value as given, version
\* included; installed under the inferred name for a JSON agent without a
\* transform, at project level, where no config file is, the install creates
\* the file at the agent's project-level path with that entry under the
\* agent's config key.
C14_PackageInstall ==
    (Built /\ sParsed.type = "package") =>
        /\ sConfig = NpxEntry
        /\ last.op = "installServerForAgent" =>
               LET agent == agents[last.agentType]
                   path == JoinCwd(agent.localConfigPath)
               IN  /\ ~last.threw
                   /\ last.result.success
                   /\ last.result.path = path
                   /\ last.pre.kind = "absent"
                   /\ fs[path].kind = "file"
                   /\ getNestedValue(ParsedDoc(fs[path]), agent.configKey) =
                          Map(ToStr(sParsed.inferredName) :> NpxEntry)

\* mcp-server-pg, installed as pg for Cursor in the project
C14_Witness ==
    /\ Built
    /\ sParsed.type = "package"
    /\ sParsed.value = McpServer \o <<"-", "p", "g">>
    /\ last.op = "installServerForAgent"
    /\ last.serverName = "pg"
    /\ fs["cwd/.cursor/mcp.json"].kind = "file"
    /\ "pg" \in KeysOf(getNestedValue(ParsedDoc(fs["cwd/.cursor/mcp.json"]), <<"mcpServers">>))

\* C15: an input whose trimmed form starts with http:// or https:// is
\* classified as remote, its value is the trimmed input, and its inferred
\* name is not empty and holds neither "." nor "/".
C15_RemoteName ==
    (Parsed /\ isUrl(trim(sInput))) =>
        /\ sParsed.type = "remote"
        /\ sParsed.value = trim(sInput)
        /\ sParsed.inferredName # <<>>
        /\ ~includes(sParsed.inferredName, ".")
        /\ ~includes(sParsed.inferredName, "/")

\* C16: parseSource returns for every input, the empty and the blank ones
\* included, one type: remote when the trimmed input starts with http:// or
\* https://, otherwise command when the trimmed input holds a space,
\* otherwise package; the value is the trimmed input.
C16_Classify ==
    Parsed =>
        LET trimmed == trim(sInput)
            url == \/ Len(trimmed) >= 7 /\ SubSeq(trimmed, 1, 7) = Http
                   \/ Len(trimmed) >= 8 /\ SubSeq(trimmed, 1, 8) = Https
            spaced == \E i \in 1..Len(trimmed) : trimmed[i] = " "
        IN  /\ sParsed.type = IF url THEN "remote"
                              ELSE IF spaced THEN "command" ELSE "package"
            /\ sParsed.value = trimmed

\* a command line without a launcher, typed with white space around it
C16_Witness ==
    /\ Parsed
    /\ sParsed.type = "command"
    /\ sInput # sParsed.value
    /\ split(sParsed.value, " ")[1] \notin {Npx, Node, Python}

\* the name the rule of C17 gives a URL: the first label that is neither a
\* top-level domain nor mcp/api/www, else the second-to-last label, else the
\* default
RuleName(input) ==
    LET url == urlHostname(input)
        labels == split(url.hostname, ".")
        passedOver == commonTlds \cup genericLabels
        brand == {i \in 1..Len(labels) : toLowerCase(labels[i]) \notin passedOver}
    IN  IF url.threw THEN McpServer
        ELSE IF brand # {} THEN labels[CHOOSE i \in brand : \A j \in brand : i <= j]
        ELSE IF Len(labels) > 1 THEN labels[Len(labels) - 1]
        ELSE McpServer

\* C17: the inferred name of a URL is the first label of its host name that
\* is neither a top-level domain of the fixed set nor mcp/api/www; without
\* such a label it is the second-to-last label, or "mcp-server" when there
\* is one label only; it is "mcp-server" when the URL does not parse.
C17_RemoteNameRule ==
    (Parsed /\ sParsed.type = "remote") =>
        sParsed.inferredName = RuleName(sParsed.value)

\* mcp.neon.com gives neon
C17_Witness ==
    /\ Parsed
    /\ sParsed.type = "remote"
    /\ ~urlHostname(sParsed.value).threw
    /\ urlHostname(sParsed.value).hostname =
           <<"m", "c", "p", ".", "n", "e", "o", "n", ".", "c", "o", "m">>
    /\ sParsed.inferredName = <<"n", "e", "o", "n">>

\* command and args of a built config, joined by single spaces
RECURSIVE JoinWords(_)
JoinWords(words) ==
    IF Len(words) = 1 THEN words[1].s
    ELSE words[1].s \o " " \o JoinWords(Tail(words))

\* C18: for a source of type command the built config has the text before
\* the first space as command and one argument for every space of the
\* value, in order; command and args joined by single spaces are the value.
C18_CommandSplit ==
    (Built /\ sParsed.type = "command") =>
        LET value == sParsed.value
            spaces == {i \in 1..Len(value) : value[i] = " "}
        IN  /\ DOMAIN sConfig.m = {"command", "args"}
            /\ sConfig.m.command = Str(ToStr(sliceTo(value, indexOf(value, " ", 0))))
            /\ Len(sConfig.m.args.a) = Cardinality(spaces)
            /\ JoinWords(<<sConfig.m.command>> \o sConfig.m.args.a) = ToStr(value)

\* a command line with two spaces in a row: one argument is empty
C18_Witness ==
    /\ Built
    /\ sParsed.type = "command"
    /\ \E i \in 1..Len(sConfig.m.args.a) : sConfig.m.args.a[i] = Str("")
    /\ Len(sConfig.m.args.a) >= 2

\* the header map given to buildServerConfig has an entry
HeadersGiven == sOptions.headers.t = "map" /\ DOMAIN sOptions.headers.m # {}

\* C19: for a source of type remote the built config has the transport
\* asked for, http when none is asked for, the value as url, and the header
\* map when that map has an entry; without a map, or with an empty one, the
\* config has no headers field.
C19_RemoteBuild ==
    (Built /\ sParsed.type = "remote") =>
        /\ sConfig.m.type = IF sOptions.transport = Undef THEN Str("http")
                            ELSE sOptions.transport
        /\ sConfig.m.url = Str(ToStr(sParsed.value))
        /\ HeadersGiven => /\ DOMAIN sConfig.m = {"type", "url", "headers"}
                           /\ sConfig.m.headers = sOptions.headers
        /\ ~HeadersGiven => DOMAIN sConfig.m = {"type", "url"}

\* a remote source built with an empty header map and a transport
C19_Witness ==
    /\ Built
    /\ sParsed.type = "remote"
    /\ sOptions.headers = EmptyMap
    /\ sOptions.transport = Str("http")
    /\ "headers" \notin DOMAIN sConfig.m

\* C20: a built config has a url and no command for a remote source, and a
\* command and no url for a package or command source.
C20_OneVariant ==
    Built =>
        /\ sParsed.type = "remote" =>
               "url" \in DOMAIN sConfig.m /\ "command" \notin DOMAIN sConfig.m
        /\ sParsed.type \in {"package", "command"} =>
               "command" \in DOMAIN sConfig.m /\ "url" \notin DOMAIN sConfig.m

\* a command source built with a transport and headers in the options
C20_Witness ==
    /\ Built
    /\ sParsed.type = "command"
    /\ sOptions.transport = Str("sse")
    /\ sOptions.headers # Undef
    /\ "command" \in DOMAIN sConfig.m

----------------------------------------------------------------------------
(* Properties of the agent transforms                                      *)

\* a transform has been applied for the agent
Transformed(agentType) == tOut # Undef /\ tOut.agentType = agentType

\* C21: Goose's transform turns the config of a package or command source
\* into a record with type "stdio", cmd the command, name the server name
\* and enabled true, and the config of a remote source into a record whose
\* type is "sse" when the transport is sse and "streamable_http" otherwise.
C21_GooseTransform ==
    Transformed("goose") =>
        /\ sParsed.type \in {"package", "command"} =>
               /\ tOut.out.m.type = Str("stdio")
               /\ tOut.out.m.cmd = sConfig.m.command
               /\ tOut.out.m.name = Str(tOut.serverName)
               /\ tOut.out.m.enabled = Bool(TRUE)
        /\ sParsed.type = "remote" =>
               tOut.out.m.type = IF sOptions.transport = Str("sse") THEN Str("sse")
                                 ELSE Str("streamable_http")

\* a remote source built with transport http and transformed for Goose
C21_Witness ==
    /\ Transformed("goose")
    /\ sParsed.type = "remote"
    /\ sOptions.transport = Str("http")
    /\ tOut.out.m.type = Str("streamable_http")

\* the entry the last install left under the agent's config key
WrittenEntry ==
    getNestedValue(ParsedDoc(fs[last.result.path]),
                   agents[last.agentType].configKey).m[last.serverName]

\* C22: an install of a remote config for Cursor writes an entry made of url,
\* and of headers when the config has some, without a type field; a local
\* config is written as it is.
C22_CursorShape ==
    (last.op = "installServerForAgent" /\ last.agentType = "cursor"
        /\ ~last.threw /\ last.result.success) =>
        IF sParsed.type = "remote"
        THEN WrittenEntry =
                 Map([k \in {"url"} \cup ({"headers"} \cap DOMAIN sConfig.m) |-> sConfig.m[k]])
        ELSE WrittenEntry = sConfig

----------------------------------------------------------------------------
(* Properties of the add command                                           *)

\* an --agent value that names no agent and no alias
UnknownAgentGiven ==
    \E i \in 1..Len(cli.options.agent) :
        ToStr(toLowerCase(cli.options.agent[i])) \notin
            Elems(AgentTypes) \cup DOMAIN agentAliases

\* the agents were named with --agent or picked at the prompt
ExplicitlySelected == Len(cli.options.agent) > 0 \/ cli.viaPrompt

\* the transport the source needs, and headers that would go into its config
RequiredTransport ==
    IF sParsed.type = "remote"
    THEN IF cli.options.transport = "" THEN "http" ELSE cli.options.transport
    ELSE "stdio"
HeadersForRemote == sParsed.type = "remote" /\ cli.options.header # <<>>

----------------------------------------------------------------------------
(* Properties of collectPromptValues                                       *)

Collecting == prompts # Undef
AnswerEmpty(raw) == ~isCancel(raw) /\ trim(raw.text) = <<>>
AnswerGiven(raw) == ~isCancel(raw) /\ trim(raw.text) # <<>>
AskedField(j) == prompts.fields[prompts.asked[j].field]

\* the field the j-th question is expected to be about, given the one before
ExpectedField(j) ==
    IF j = 1 THEN 1
    ELSE IF AskedField(j - 1).isRequired /\ AnswerEmpty(prompts.asked[j - 1].raw)
         THEN prompts.asked[j - 1].field
         ELSE prompts.asked[j - 1].field + 1

\* the answers that a key of the values can come from
GivenFor(key) ==
    {j \in 1..Len(prompts.asked) :
        AskedField(j).key = key /\ AnswerGiven(prompts.asked[j].raw)}

\* C24: the fields are asked in list order; an empty or whitespace-only
\* answer to a required field is followed by the same question and never by
\* the next field or the return; an optional field is asked once, and an
\* empty answer to it stores nothing; the values hold, for each key, the
\* trimmed last non-empty answer and nothing else; a cancel answer is the
\* last one and returns cancelled = true with the values stored so far.
C24_PromptCollection ==
    Collecting =>
        LET asked == prompts.asked
            n == Len(asked)
        IN  /\ \A j \in 1..n : asked[j].field = ExpectedField(j)
            /\ \A j \in 1..n :
                   isCancel(asked[j].raw) => j = n /\ prompts.returned
            /\ prompts.cancelled <=> (n > 0 /\ isCancel(asked[n].raw))
            /\ \A key \in FieldKeys :
                   IF GivenFor(key) = {}
                   THEN key \notin DOMAIN prompts.values
                   ELSE /\ key \in DOMAIN prompts.values
                        /\ \E j \in GivenFor(key) :
                               /\ \A other \in GivenFor(key) : other <= j
                               /\ prompts.values[key] = trim(asked[j].raw.text)
            /\ (prompts.returned /\ ~prompts.cancelled) =>
                   /\ prompts.at = Len(prompts.fields) + 1
                   /\ \A i \in 1..Len(prompts.fields) :
                          /\ \E j \in 1..n : asked[j].field = i
                          /\ prompts.fields[i].isRequired =>
                                 /\ prompts.fields[i].key \in DOMAIN prompts.values
                                 /\ prompts.values[prompts.fields[i].key] # <<>>
                          /\ ~prompts.fields[i].isRequired =>
                                 Cardinality({j \in 1..n : asked[j].field = i}) = 1
            /\ (~prompts.returned) =>
                   prompts.at = IF n = 0 THEN 1 ELSE ExpectedField(n + 1)

\* a required field answered empty and then given, followed by an optional
\* field answered empty: collected without a cancel
C24_Witness ==
    /\ Collecting
    /\ prompts.returned
    /\ ~prompts.cancelled
    /\ Len(prompts.fields) = 2
    /\ prompts.fields[1].isRequired
    /\ ~prompts.fields[2].isRequired
    /\ prompts.fields[1].key # prompts.fields[2].key
    /\ Len(prompts.asked) = 3
    /\ AnswerEmpty(prompts.asked[1].raw)
    /\ AnswerGiven(prompts.asked[2].raw)
    /\ AnswerEmpty(prompts.asked[3].raw)
    /\ DOMAIN prompts.values = {prompts.fields[1].key}

----------------------------------------------------------------------------
(* Properties of the lock file                                             *)

\* C25: once saveSelectedAgents(L) has completed, whatever the lock file
\* held before it, getLastSelectedAgents returns L.
C25_LockRoundTrip ==
    (lock # Undef /\ lock.op = "getLastSelectedAgents" /\ lock.saved # Undef) =>
        lock.result = lock.saved

\* the same for a lock file that was missing or unparseable before, or whose
\* version was missing, not a number, or a number of the double range
C25_RoundTripFiniteVersion ==
    (lock # Undef /\ lock.op = "getLastSelectedAgents" /\ lock.saved # Undef
        /\ (lock.before.wf => Property(lock.before.text, "version") # HugeLit)) =>
        lock.result = lock.saved

----------------------------------------------------------------------------
(* Properties of the JSON writer                                           *)

\* what installServerForAgent hands to writeConfig
LastConfig ==
    buildConfigWithKey(LastKey, last.serverName,
                       applyTransform(agents[last.agentType], last.serverName,
                                      last.serverConfig, last.options.local))

\* the install got as far as writing a JSON file
JsonWritten ==
    /\ last.op = "installServerForAgent"
    /\ ~last.threw
    /\ last.result.success
    /\ agents[last.agentType].format = "json"

\* C26: a JSON file that exists is written by patching its text at the
\* config key, or re-serialized after the patch raised an error; it is
\* re-serialized without a patch attempt only when no file exists.
C26_JsonWriteStrategy ==
    (JsonWritten /\ existsSync(last.pre)) =>
        jsonWriteStrategy(last.pre, LastConfig, LastKey) \in {"patch", "fallback"}

\* the same for a file that holds at least one character
C26_NonEmptyPatched ==
    (JsonWritten /\ existsSync(last.pre) /\ ~last.pre.empty) =>
        jsonWriteStrategy(last.pre, LastConfig, LastKey) \in {"patch", "fallback"}

----------------------------------------------------------------------------
(* Properties of the order of installServer                                *)

\* the agents of the first n places of the list
FirstAgents(r, n) == {r.agentTypes[k] : k \in 1..n}

\* C27: each pass of installServer's loop handles the agent at the next
\* place of the list and only that one: it reads the files as the passes
\* before it left them, changes no file but that agent's, and adds that
\* agent's result to those of the agents before it; the result map is
\* returned only after the pass of the last agent, holding a result for
\* every agent of the list, and the return changes no file.
C27_ListOrder ==
    [][/\ (run.active /\ run'.active /\ run' # run) =>
              LET agentType == run.agentTypes[run.i]
                  options == InstallOptions(run, agentType)
                  path == PathOf(agentType, options)
                  out == installServerForAgent(fs, run.serverName, run.serverConfig,
                                               agentType, options)
              IN  /\ run.i <= Len(run.agentTypes)
                  /\ DOMAIN run.results = FirstAgents(run, run.i - 1)
                  /\ \A p \in DOMAIN fs : p # path => fs'[p] = fs[p]
                  /\ fs' = out.fs
                  /\ \/ run'.threw /\ fs' = fs
                     \/ /\ run'.i = run.i + 1
                        /\ DOMAIN run'.results = FirstAgents(run, run.i)
                        /\ run'.results[agentType] = out.value
                        /\ \A a \in DOMAIN run.results \ {agentType} :
                               run'.results[a] = run.results[a]
       /\ (run.active /\ ~run'.active) =>
              /\ fs' = fs
              /\ \/ last'.threw
                 \/ /\ run.i = Len(run.agentTypes) + 1
                    /\ DOMAIN last'.results = FirstAgents(run, Len(run.agentTypes))
                    /\ last'.results = run.results]_vars

\* two different agents in the list, the first one handled and written, the
\* second one's file still as it was when installServer was called
C27_Witness ==
    /\ run.active
    /\ ~run.threw
    /\ Len(run.agentTypes) = 2
    /\ run.agentTypes[1] # run.agentTypes[2]
    /\ run.i = 2
    /\ DOMAIN run.results = {run.agentTypes[1]}
    /\ run.results[run.agentTypes[1]].success
    /\ fs[run.results[run.agentTypes[1]].path] # run.fs0[run.results[run.agentTypes[1]].path]
    /\ LET path == PathOf(run.agentTypes[2], InstallOptions(run, run.agentTypes[2]))
       IN  path # "" /\ fs[path] = run.fs0[path]

----------------------------------------------------------------------------
(* Properties of the files an install touches                              *)

\* C28: an install for one agent leaves the file at every path other than
\* that agent's resolved config path as it was, whether it succeeds, fails
\* or throws, and its result and the file it writes are those of the same
\* install in a file system where every other path is absent.
C28_OtherFilesUntouched ==
    [][(last'.op = "installServerForAgent" /\ calls' = calls + 1) =>
           LET path == last'.path
               alone == [p \in DOMAIN fs |-> IF p = path THEN fs[p] ELSE Absent]
               out == installServerForAgent(alone, last'.serverName, last'.serverConfig,
                                            last'.agentType, last'.options)
           IN  /\ \A p \in DOMAIN fs \ {path} : fs'[p] = fs[p]
               /\ last'.threw = out.threw
               /\ last'.result = out.value
               /\ path # "" => fs'[path] = out.fs[path]]_vars

\* a project-level install has written its file while a file of another
\* agent, or the agent's own global file, is there
C28_Witness ==
    /\ last.op = "installServerForAgent"
    /\ last.result.success
    /\ last.options.local
    /\ last.path # agents[last.agentType].configPath
    /\ fs[last.path] # last.pre
    /\ \E p \in DOMAIN fs \ {last.path} : fs[p] # Absent

----------------------------------------------------------------------------
(* Properties of an install followed by its query                          *)

\* the step is isServerInstalled called right after a successful
\* installServerForAgent, with the same name, agent and options
QueryAfterInstall ==
    /\ last.op = "installServerForAgent"
    /\ ~last.threw
    /\ last.result.success
    /\ last'.op = "isServerInstalled"
    /\ last'.serverName = last.serverName
    /\ last'.agentType = last.agentType
    /\ last'.options = last.options

C29_OneKeyAgents ==
    [][(QueryAfterInstall /\ agents[last.agentType].localConfigKey = <<>>) =>
           (~last'.threw /\ last'.installed)]_vars

----------------------------------------------------------------------------
(* Properties of updateGitignoreWithPaths                                  *)

Updated == ignore # Undef /\ ignore.op = "update"

\* the path leaves the directory it is relative to, or names a place by its
\* root
RECURSIVE Escapes(_, _)
Escapes(segments, depth) ==
    IF segments = <<>> THEN FALSE
    ELSE IF Head(segments) = <<".", ".">>
         THEN depth = 0 \/ Escapes(Tail(segments), depth - 1)
         ELSE IF Head(segments) \in {<<>>, <<".">>}
              THEN Escapes(Tail(segments), depth)
              ELSE Escapes(Tail(segments), depth + 1)
OutsideDirectory(path) == isAbsolute(path) \/ Escapes(split(path, "/"), 0)

\* the text is only extended, and what is added is new to the file and to
\* the call
AppendedOnly ==
    /\ startsWith(ignore.file.content, ignore.before.content)
    /\ \A i \in 1..Len(ignore.added) :
           /\ ignore.added[i] \notin existingEntriesOf(ignore.before.content)
           /\ \A j \in 1..(i - 1) : ignore.added[j] # ignore.added[i]
    /\ ~ignore.wrote => ignore.file = ignore.before

\* C30: after every call the earlier text of .gitignore is still there in
\* place, no added path was already a trimmed line of the file or added
\* earlier in the call, no added path lies outside the directory or is
\* .gitignore, and a call with the paths of the call before it adds nothing
\* and does not write the file.
C30_GitignoreAppendOnly ==
    Updated =>
        /\ AppendedOnly
        /\ \A i \in 1..Len(ignore.added) :
               /\ ~OutsideDirectory(ignore.added[i])
               /\ ignore.added[i] # DotGitignore
        /\ ignore.previous = <<ignore.paths>> =>
               /\ ignore.added = <<>>
               /\ ~ignore.wrote
               /\ ignore.file = ignore.before

\* the part that holds for every path: only appended, nothing added twice
C30_AppendedOnly == Updated => AppendedOnly

====
